---- MODULE Spec2Model ----
(***************************************************************************)
(* Model of the incremental synchronisation and change-detection engine of *)
(* telegram-pars: the snapshot store (database.py), the sync orchestrator  *)
(* (telegram_parser.py, main.py) and the realtime bridge                   *)
(* (realtime_monitor.py).                                                  *)
(***************************************************************************)
EXTENDS Integers, Sequences, FiniteSets, TLC

\* ------------------------------------------------------------------ bounds
MaxHistory == 4        \* longest message_history the store specification builds
MaxSessions == 2       \* scan sessions (runs) opened in one behaviour
MaxRemoteChanges == 2  \* remote creations, edits and deletions in one behaviour
MaxChangesLog == 1     \* rows of realtime_changes_log
MaxBridgeHistory == 3  \* rows of message_history while the bridge runs
MaxRequests == 2       \* _safe_request calls in one behaviour
MaxEvents == 3         \* NotificationManager.notify calls in one behaviour
MaxClock == 2          \* seconds that pass in one behaviour

\* ------------------------------------------------------------- value sets
Chats == {1, 2}
MsgIds == {1, 2}
\* Conversation 1 holds up to two messages, conversation 2 one: message id 1
\* exists in both.
Keys == {k \in Chats \X MsgIds : k[1] = 1 \/ k[2] = 1}
IdsOf(c) == {m \in MsgIds : <<c, m>> \in Keys}
Null == "NULL"                 \* SQL NULL / Python None
Texts == {"a", "b"}
Sessions == 1..MaxSessions
DirectSessions == {1}          \* session ids passed by direct callers of the store

\* ------------------------------------------------------------------ state
VARIABLES
    messages,          \* table messages: (chat_id, id) -> row
    message_history,   \* table message_history, in append (rowid) order
    ret                \* arguments and result of a direct mark_deleted_messages call,
                       \* until the next call

VARIABLES
    remote,            \* the remote conversations: (chat_id, id) -> NotYet, a body, Gone
    remote_changes,    \* remote changes made so far
    pc,                \* where the orchestrator's flow of control stands
    current_status,    \* TelegramParser.current_status
    run,               \* locals of the running parse_all_chats / check_for_changes /
                       \* parse_single_chat
    scan,              \* locals of the running _parse_all_messages /
                       \* _parse_new_messages_since
    sessions_opened    \* scan sessions created so far

VARIABLES
    realtime_changes_log,  \* table realtime_changes_log, in append order
    monitor,               \* RealtimeMonitor: is_running, monitored_chats
    push,                  \* the push notification being handled by the bridge
    poll,                  \* a save_message_with_history call between its SELECT
                           \* and its writes
    events                 \* the event type _notify_callbacks handed out last

VARIABLES
    account_restricted,    \* TelegramParser.account_restricted
    req                    \* the _safe_request call in progress, and its clock

VARIABLES
    status_file,           \* data/parser_status.json of StatusManager
    web                    \* the web process: its StatusManager call in progress

VARIABLES
    listeners,             \* NotificationManager.listeners: the clients' queues, in
                           \* the order they were added
    event_queue,           \* NotificationManager.event_queue
    client_queues,         \* what each client queue of monitor_stream holds
    notifier               \* the NotificationManager.notify call in progress

VARIABLES
    clock                  \* the wall clock, in whole seconds

VARIABLES
    scan_sessions          \* table scan_sessions as create_scan_session and
                           \* close_scan_session keep it: id -> row

storeVars == <<messages, message_history>>
remoteVars == <<remote, remote_changes>>
parserVars == <<pc, current_status, run, scan, sessions_opened>>
bridgeVars == <<realtime_changes_log, monitor, push, poll, events>>
governorVars == <<account_restricted, req>>
statusVars == <<status_file, web>>
notifyVars == <<listeners, event_queue, client_queues, notifier>>
vars == <<messages, message_history, ret, remote, remote_changes,
          pc, current_status, run, scan, sessions_opened,
          realtime_changes_log, monitor, push, poll, events,
          account_restricted, req, status_file, web,
          listeners, event_queue, client_queues, notifier, clock,
          scan_sessions>>

\* A row of table messages; present = FALSE stands for "no such row".
\* views stands for the volatile columns views and forwards.
NoRow == [present |-> FALSE, text |-> Null, is_deleted |-> FALSE, views |-> 0]
Row(text, is_deleted) ==
    [present |-> TRUE, text |-> text, is_deleted |-> is_deleted, views |-> 0]

\* dict.get(key, default)
get(d, key, default) == IF key \in DOMAIN d THEN d[key] ELSE default

NoCall == [op |-> "none", chat_id |-> 0, ids |-> {}, result |-> 0]

\* --------------------------------------------------------- snapshot store
\* CURRENT_TIMESTAMP, the default of message_history.timestamp: the time of
\* the INSERT to the second
CURRENT_TIMESTAMP == clock

\* _log_message_change writing over the newest row instead of adding one.
_log_message_change_overwrites(hist, message_id, chat_id, action, old_text, new_text, session_id) ==
    LET row == [message_id |-> message_id, chat_id |-> chat_id,
                action_type |-> action, old_text |-> old_text,
                new_text |-> new_text, timestamp |-> CURRENT_TIMESTAMP,
                scan_session |-> session_id]
    IN  IF hist = <<>> THEN <<row>> ELSE [hist EXCEPT ![Len(hist)] = row]

\* INSERT INTO message_history (...) VALUES (...)
_log_message_change(hist, message_id, chat_id, action, old_text, new_text, session_id) ==
    Append(hist, [message_id |-> message_id, chat_id |-> chat_id,
                  action_type |-> action, old_text |-> old_text,
                  new_text |-> new_text, timestamp |-> CURRENT_TIMESTAMP,
                  scan_session |-> session_id])

\* save_decide_write whose UPDATE sets the text column only.
save_decide_write_keeps_views(msgs, hist, existing, message_data, session_id) ==
    LET message_id == message_data.id
        chat_id == message_data.chat_id
        current_text == message_data.text
        key == <<chat_id, message_id>>
    IN  IF existing.present
        THEN [messages |-> [msgs EXCEPT ![key] =
                                IF msgs[key].present
                                THEN [@ EXCEPT !.text = current_text]
                                ELSE @],
              message_history |->
                  IF existing.text # current_text /\ ~existing.is_deleted
                  THEN _log_message_change(hist, message_id, chat_id, "edited",
                                           existing.text, current_text, session_id)
                  ELSE hist]
        ELSE IF msgs[key].present
             THEN [messages |-> msgs, message_history |-> hist]
             ELSE [messages |-> [msgs EXCEPT ![key] =
                                    [Row(current_text, FALSE) EXCEPT
                                        !.views = get(message_data, "views", 0)]],
                   message_history |->
                       _log_message_change(hist, message_id, chat_id, "created",
                                           Null, current_text, session_id)]

\* save_decide_write writing the row anew (INSERT OR REPLACE) instead of
\* updating its columns.
save_decide_write_replaces_row(msgs, hist, existing, message_data, session_id) ==
    LET message_id == message_data.id
        chat_id == message_data.chat_id
        current_text == message_data.text
        key == <<chat_id, message_id>>
    IN  IF existing.present
        THEN [messages |-> [msgs EXCEPT ![key] =
                                [Row(current_text, FALSE) EXCEPT
                                    !.views = get(message_data, "views", 0)]],
              message_history |->
                  IF existing.text # current_text /\ ~existing.is_deleted
                  THEN _log_message_change(hist, message_id, chat_id, "edited",
                                           existing.text, current_text, session_id)
                  ELSE hist]
        ELSE IF msgs[key].present
             THEN [messages |-> msgs, message_history |-> hist]
             ELSE [messages |-> [msgs EXCEPT ![key] =
                                    [Row(current_text, FALSE) EXCEPT
                                        !.views = get(message_data, "views", 0)]],
                   message_history |->
                       _log_message_change(hist, message_id, chat_id, "created",
                                           Null, current_text, session_id)]

\* save_decide_write without the `and not is_deleted` test of the edit branch.
save_decide_write_no_tombstone_test(msgs, hist, existing, message_data, session_id) ==
    LET message_id == message_data.id
        chat_id == message_data.chat_id
        current_text == message_data.text
        key == <<chat_id, message_id>>
    IN  IF existing.present
        THEN [messages |-> [msgs EXCEPT ![key] =
                                IF msgs[key].present
                                THEN [@ EXCEPT !.text = current_text,
                                               !.views = get(message_data, "views", 0)]
                                ELSE @],
              message_history |->
                  IF existing.text # current_text
                  THEN _log_message_change(hist, message_id, chat_id, "edited",
                                           existing.text, current_text, session_id)
                  ELSE hist]
        ELSE IF msgs[key].present
             THEN [messages |-> msgs, message_history |-> hist]
             ELSE [messages |-> [msgs EXCEPT ![key] =
                                    [Row(current_text, FALSE) EXCEPT
                                        !.views = get(message_data, "views", 0)]],
                   message_history |->
                       _log_message_change(hist, message_id, chat_id, "created",
                                           Null, current_text, session_id)]

\* The body of save_message_with_history after its SELECT returned `existing`:
\* the decision is taken on `existing`, the writes go to the tables as they are.
save_decide_write(msgs, hist, existing, message_data, session_id) ==
    LET message_id == message_data.id
        chat_id == message_data.chat_id
        current_text == message_data.text
        key == <<chat_id, message_id>>
    IN  IF existing.present
        THEN [messages |-> [msgs EXCEPT ![key] =
                                IF msgs[key].present
                                THEN [@ EXCEPT !.text = current_text,
                                               !.views = get(message_data, "views", 0)]
                                ELSE @],
              message_history |->
                  IF existing.text # current_text /\ ~existing.is_deleted
                  THEN _log_message_change(hist, message_id, chat_id, "edited",
                                           existing.text, current_text, session_id)
                  ELSE hist]
        ELSE IF msgs[key].present
             THEN \* PRIMARY KEY (id, chat_id): the INSERT raises, nothing is committed
                  [messages |-> msgs, message_history |-> hist]
             ELSE [messages |-> [msgs EXCEPT ![key] =
                                    [Row(current_text, FALSE) EXCEPT
                                        !.views = get(message_data, "views", 0)]],
                   message_history |->
                       _log_message_change(hist, message_id, chat_id, "created",
                                           Null, current_text, session_id)]

save_message_with_history(msgs, hist, message_data, session_id) ==
    save_decide_write(msgs, hist,
                      msgs[<<message_data.chat_id, message_data.id>>],
                      message_data, session_id)

\* deleted_messages without the `is_deleted = FALSE` filter of the SELECT.
deleted_messages_no_filter(msgs, chat_id, current_message_ids) ==
    IF current_message_ids # {}
    THEN {m \in IdsOf(chat_id) : /\ msgs[<<chat_id, m>>].present
                                 /\ m \notin current_message_ids}
    ELSE {m \in IdsOf(chat_id) : msgs[<<chat_id, m>>].present}

\* The rows mark_deleted_messages selects: both branches of `if current_message_ids`.
deleted_messages(msgs, chat_id, current_message_ids) ==
    IF current_message_ids # {}
    THEN {m \in IdsOf(chat_id) : /\ msgs[<<chat_id, m>>].present
                                 /\ ~msgs[<<chat_id, m>>].is_deleted
                                 /\ m \notin current_message_ids}
    ELSE {m \in IdsOf(chat_id) : /\ msgs[<<chat_id, m>>].present
                                 /\ ~msgs[<<chat_id, m>>].is_deleted}

Min(S) == CHOOSE x \in S : \A y \in S : x <= y

\* mark_rows with `UPDATE messages SET is_deleted = TRUE WHERE id = ?`.
RECURSIVE mark_rows_by_id_alone(_, _, _, _, _)
mark_rows_by_id_alone(msgs, hist, chat_id, todo, session_id) ==
    IF todo = {}
    THEN [messages |-> msgs, message_history |-> hist]
    ELSE LET m == Min(todo)
             key == <<chat_id, m>>
         IN  mark_rows_by_id_alone(
                 [k \in Keys |-> IF k[2] = m /\ msgs[k].present
                                 THEN [msgs[k] EXCEPT !.is_deleted = TRUE]
                                 ELSE msgs[k]],
                 _log_message_change(hist, m, chat_id, "deleted",
                                     msgs[key].text, Null, session_id),
                 chat_id, todo \ {m}, session_id)

\* The loop over the selected rows: UPDATE ... SET is_deleted = TRUE, then the log.
RECURSIVE mark_rows(_, _, _, _, _)
mark_rows(msgs, hist, chat_id, todo, session_id) ==
    IF todo = {}
    THEN [messages |-> msgs, message_history |-> hist]
    ELSE LET m == Min(todo)
             key == <<chat_id, m>>
         IN  mark_rows([msgs EXCEPT ![key].is_deleted = TRUE],
                       _log_message_change(hist, m, chat_id, "deleted",
                                           msgs[key].text, Null, session_id),
                       chat_id, todo \ {m}, session_id)

mark_deleted_messages(msgs, hist, chat_id, current_message_ids, session_id) ==
    LET sel == deleted_messages(msgs, chat_id, current_message_ids)
        out == mark_rows(msgs, hist, chat_id, sel, session_id)
    IN  [messages |-> out.messages, message_history |-> out.message_history,
         deleted_count |-> Cardinality(sel)]

\* ------------------------------------------------------- remote platform
NotYet == "NotYet"             \* the message does not exist yet
Gone == "Gone"                 \* the message was deleted remotely; ids are not reused
IsLive(v) == v \in Texts

RemoteCreate ==
    \E k \in Keys, t \in Texts :
        /\ remote_changes < MaxRemoteChanges
        /\ remote[k] = NotYet
        /\ remote' = [remote EXCEPT ![k] = t]
        /\ remote_changes' = remote_changes + 1
        /\ scan' = IF scan.chat_id = k[1] THEN [scan EXCEPT !.replay = FALSE] ELSE scan
        /\ UNCHANGED <<clock, scan_sessions, notifyVars, storeVars, ret, bridgeVars, governorVars, statusVars, pc, current_status, run,
                     sessions_opened>>

RemoteEdit ==
    \E k \in Keys, t \in Texts :
        /\ remote_changes < MaxRemoteChanges
        /\ IsLive(remote[k])
        /\ t # remote[k]
        /\ remote' = [remote EXCEPT ![k] = t]
        /\ remote_changes' = remote_changes + 1
        /\ scan' = IF scan.chat_id = k[1] THEN [scan EXCEPT !.replay = FALSE] ELSE scan
        /\ UNCHANGED <<clock, scan_sessions, notifyVars, storeVars, ret, bridgeVars, governorVars, statusVars, pc, current_status, run,
                     sessions_opened>>

RemoteDelete ==
    \E k \in Keys :
        /\ remote_changes < MaxRemoteChanges
        /\ IsLive(remote[k])
        /\ remote' = [remote EXCEPT ![k] = Gone]
        /\ remote_changes' = remote_changes + 1
        /\ scan' = IF scan.chat_id = k[1] THEN [scan EXCEPT !.replay = FALSE] ELSE scan
        /\ UNCHANGED <<clock, scan_sessions, notifyVars, storeVars, ret, bridgeVars, governorVars, statusVars, pc, current_status, run,
                     sessions_opened>>

\* ------------------------------------------------------------ scan sessions
\* The instants of one clock second at which datetime.now() can be read, in
\* microseconds.
Microseconds == {0, 500000}

\* datetime.now()
Now == {[second |-> clock, microsecond |-> u] : u \in Microseconds}

\* f"scan_{now.strftime('%Y%m%d_%H%M%S')}": the format keeps the date and the
\* time of day down to the second and drops the microseconds.
strftime_YmdHMS(now) == <<"scan", now.second>>

\* Table scan_sessions, empty
NoSessions == [id \in {} |-> 0]

\* INSERT INTO scan_sessions (id, start_time): id is the PRIMARY KEY, a second
\* row with the same id raises sqlite3.IntegrityError and nothing is written.
insert_scan_session(sessions, session_id, start_time) ==
    IF session_id \in DOMAIN sessions
    THEN [raised |-> "IntegrityError", scan_sessions |-> sessions]
    ELSE [raised |-> Null,
          scan_sessions |->
              [id \in DOMAIN sessions \cup {session_id} |->
                  IF id = session_id
                  THEN [start_time |-> start_time, end_time |-> Null]
                  ELSE sessions[id]]]

\* create_scan_session(): ret keeps the id returned, or the error raised.
create_scan_session ==
    \E now \in Now, later \in Now :
        /\ later.microsecond >= now.microsecond
        /\ LET session_id == strftime_YmdHMS(now)
               out == insert_scan_session(scan_sessions, session_id, later)
           IN  /\ scan_sessions' = out.scan_sessions
               /\ ret' = IF out.raised = Null
                         THEN [op |-> "create_scan_session", chat_id |-> 0,
                               ids |-> {}, result |-> session_id]
                         ELSE [op |-> "create_scan_session raised", chat_id |-> 0,
                               ids |-> {}, result |-> out.raised]
        /\ UNCHANGED <<clock, storeVars, remoteVars, parserVars, bridgeVars,
                       governorVars, statusVars, notifyVars>>

\* close_scan_session(session_id, stats): UPDATE scan_sessions SET end_time =
\* datetime.now(), ... WHERE id = ?
close_scan_session ==
    \E session_id \in DOMAIN scan_sessions, now \in Now :
        /\ scan_sessions' = [scan_sessions EXCEPT ![session_id].end_time = now]
        /\ ret' = [op |-> "close_scan_session", chat_id |-> 0, ids |-> {},
                   result |-> session_id]
        /\ UNCHANGED <<clock, storeVars, remoteVars, parserVars, bridgeVars,
                       governorVars, statusVars, notifyVars>>

\* ------------------------------------------------------ sync orchestrator
InitStatus ==
    [is_active |-> FALSE, current_operation |-> Null,
     progress |-> [total_chats |-> 0, processed_chats |-> 0],
     interruption_requested |-> FALSE]

NoRun ==
    [kind |-> "none", force_full_scan |-> FALSE, chats |-> <<>>, i |-> 0,
     session_id |-> 0, all_data |-> [c \in Chats |-> "none"],
     chats_parsed |-> 0, chats_skipped |-> 0, chats_checked |-> 0,
     broke |-> FALSE, returned |-> FALSE, error |-> Null,
     closed |-> FALSE, closed_stats |-> [total_chats |-> 0]]

NoMessage == [present |-> FALSE, id |-> 0, text |-> Null]

NoScan ==
    [kind |-> "none", chat_id |-> 0, todo |-> <<>>, message |-> NoMessage,
     current_message_ids |-> {}, replay |-> FALSE, since |-> 0,
     error |-> FALSE]

\* update_status clearing interruption_requested when an operation is named.
update_status_clears_request(st, operation, progress_update) ==
    [st EXCEPT
        !.current_operation = IF operation # Null THEN operation ELSE @,
        !.is_active = IF operation # Null THEN operation # "idle" ELSE @,
        !.interruption_requested = IF operation # Null THEN FALSE ELSE @,
        !.progress = [f \in DOMAIN @ |->
                         IF f \in DOMAIN progress_update
                         THEN progress_update[f] ELSE @[f]]]

\* update_status(operation, progress_update): None / absent keys leave a field alone.
update_status(st, operation, progress_update) ==
    [st EXCEPT
        !.current_operation = IF operation # Null THEN operation ELSE @,
        !.is_active = IF operation # Null THEN operation # "idle" ELSE @,
        !.progress = [f \in DOMAIN @ |->
                         IF f \in DOMAIN progress_update
                         THEN progress_update[f] ELSE @[f]]]

NoProgress == [x \in {} |-> 0]

\* request_interruption(): called from the signal handler or the web thread.
request_interruption ==
    /\ ~current_status.interruption_requested
    /\ current_status' = [current_status EXCEPT !.interruption_requested = TRUE]
    /\ UNCHANGED <<clock, scan_sessions, notifyVars, storeVars, ret, remoteVars, governorVars, statusVars, bridgeVars, pc, run, scan, sessions_opened>>

check_interruption_requested == current_status.interruption_requested

\* SELECT COUNT(*) FROM messages WHERE chat_id = ? AND is_deleted = FALSE
get_cached_message_count(msgs, chat_id) ==
    Cardinality({m \in IdsOf(chat_id) : /\ msgs[<<chat_id, m>>].present
                                        /\ ~msgs[<<chat_id, m>>].is_deleted})

\* messages.date: the remote side dates the messages of a conversation in the
\* order of their ids.
DateOf(m) == m
NoDate == 0    \* MAX(date) over no row: None

Max(S) == CHOOSE x \in S : \A y \in S : y <= x

\* SELECT MAX(date) FROM messages WHERE chat_id = ? AND is_deleted = FALSE
get_last_message_date(msgs, chat_id) ==
    LET dates == {DateOf(m) : m \in {n \in IdsOf(chat_id) :
                                        /\ msgs[<<chat_id, n>>].present
                                        /\ ~msgs[<<chat_id, n>>].is_deleted}}
    IN  IF dates = {} THEN NoDate ELSE Max(dates)

\* _should_skip_chat without the get_cached_message_count test.
_should_skip_chat_ignores_cache(msgs, chat_id) ==
    account_restricted

_should_skip_chat(msgs, chat_id) ==
    account_restricted \/ get_cached_message_count(msgs, chat_id) > 0

\* get_chats_list(): the dialogs enumerated before the listing ended or failed.
ChatLists == {<<>>, <<1>>, <<1, 2>>}

\* `message.text or ''`
TextOrEmpty(t) == IF t = Null THEN "" ELSE t

\* The ids a message stream can still yield, newest first.
Descending == <<2, 1>>
Stream(ids) == SelectSeq(Descending, LAMBDA m : m \in ids)

\* client.iter_messages(chat_id, offset_date=since_date): Telethon yields,
\* newest first, the messages dated before offset_date.
iter_messages_offset_date(chat_id, since_date) ==
    Stream({m \in IdsOf(chat_id) : DateOf(m) < since_date})

\* The store matches what a full pull of the remote conversation leaves behind.
Synced(c) ==
    \A m \in IdsOf(c) :
        LET k == <<c, m>>
        IN  IF IsLive(remote[k])
            THEN messages[k].present /\ messages[k].text = remote[k]
            ELSE ~messages[k].present \/ messages[k].is_deleted

\* parse_chat_messages up to the first fetch: full or incremental pull.
parse_chat_messages(st, chat_id, force_full_scan) ==
    LET last_message_date == get_last_message_date(messages, chat_id)
    IN  IF account_restricted
        THEN \* `return []`
             /\ scan' = [NoScan EXCEPT !.kind = "restricted", !.chat_id = chat_id]
             /\ current_status' = st
        ELSE IF /\ ~force_full_scan
                /\ get_cached_message_count(messages, chat_id) > 0
                /\ last_message_date # NoDate
        THEN \* _parse_new_messages_since(chat_id, last_date, session_id)
             /\ scan' = [NoScan EXCEPT
                            !.kind = "new", !.chat_id = chat_id,
                            !.todo = iter_messages_offset_date(chat_id,
                                                               last_message_date),
                            !.since = last_message_date]
             /\ current_status' = update_status(st, "parsing_new_messages", NoProgress)
        ELSE \* _parse_all_messages, limit = config.MAX_MESSAGES = None
             /\ scan' = [NoScan EXCEPT
                            !.kind = "full", !.chat_id = chat_id,
                            !.todo = Stream(IdsOf(chat_id)),
                            !.replay = Synced(chat_id)]
             /\ current_status' = update_status(st, "parsing_full_chat", NoProgress)

\* create_scan_session()
CanOpenSession == sessions_opened < MaxSessions

ParseAllChatsStart_no_restriction_check ==
    \E force \in BOOLEAN, chats \in ChatLists :
        /\ pc = "idle"
        /\ CanOpenSession
        /\ sessions_opened' = sessions_opened + 1
        /\ run' = [NoRun EXCEPT !.kind = "all", !.force_full_scan = force,
                                !.chats = chats, !.i = 1,
                                !.session_id = sessions_opened + 1]
        /\ current_status' =
               update_status(update_status(current_status,
                                           "parsing_all_chats", NoProgress),
                             Null, [total_chats |-> Len(chats),
                                    processed_chats |-> 0])
        /\ pc' = "all_loop"
        /\ scan' = NoScan
        /\ UNCHANGED <<clock, scan_sessions, notifyVars, storeVars, ret, remoteVars, governorVars, statusVars, bridgeVars>>

\* parse_all_chats, up to the for loop
ParseAllChatsStart ==
    \E force \in BOOLEAN, chats \in ChatLists :
        /\ pc = "idle"
        /\ IF account_restricted
           THEN \* return {'error': 'Account restricted', ...}
                /\ run' = [NoRun EXCEPT !.kind = "all", !.force_full_scan = force,
                                        !.returned = TRUE,
                                        !.error = "Account restricted"]
                /\ UNCHANGED <<pc, current_status, sessions_opened>>
           ELSE /\ CanOpenSession
                /\ sessions_opened' = sessions_opened + 1
                /\ run' = [NoRun EXCEPT !.kind = "all", !.force_full_scan = force,
                                        !.chats = chats, !.i = 1,
                                        !.session_id = sessions_opened + 1]
                /\ current_status' =
                       update_status(update_status(current_status,
                                                   "parsing_all_chats", NoProgress),
                                     Null, [total_chats |-> Len(chats),
                                            processed_chats |-> 0])
                /\ pc' = "all_loop"
        /\ scan' = NoScan
        /\ UNCHANGED <<clock, scan_sessions, notifyVars, storeVars, ret, remoteVars, governorVars, statusVars, bridgeVars>>

\* ParseAllChatsNext without the check_interruption_requested() test.
ParseAllChatsNext_no_check ==
    /\ pc = "all_loop"
    /\ IF run.i > Len(run.chats)
       THEN /\ pc' = "all_end"
            /\ UNCHANGED <<run, scan, current_status>>
       ELSE LET chat == run.chats[run.i]
                st == update_status(current_status, Null,
                                    [processed_chats |-> run.i - 1])
            IN  IF ~run.force_full_scan /\ _should_skip_chat(messages, chat)
                THEN /\ run' = [run EXCEPT
                                   !.all_data[chat] = "skipped - already cached",
                                   !.chats_skipped = @ + 1,
                                   !.i = @ + 1]
                     /\ current_status' = st
                     /\ UNCHANGED <<pc, scan>>
                ELSE /\ parse_chat_messages(st, chat, run.force_full_scan)
                     /\ pc' = "fetch"
                     /\ UNCHANGED run
    /\ UNCHANGED <<clock, scan_sessions, notifyVars, storeVars, ret, remoteVars, governorVars, statusVars, bridgeVars, sessions_opened>>

\* ParseAllChatsNext building a fresh summary when it stops on an interruption.
ParseAllChatsNext_drops_summary ==
    /\ pc = "all_loop"
    /\ IF run.i > Len(run.chats)
       THEN /\ pc' = "all_end"
            /\ UNCHANGED <<run, scan, current_status>>
       ELSE IF check_interruption_requested
       THEN /\ pc' = "all_end"
            /\ run' = [run EXCEPT !.broke = TRUE, !.all_data = NoRun.all_data]
            /\ UNCHANGED <<scan, current_status>>
       ELSE LET chat == run.chats[run.i]
                st == update_status(current_status, Null,
                                    [processed_chats |-> run.i - 1])
            IN  IF ~run.force_full_scan /\ _should_skip_chat(messages, chat)
                THEN /\ run' = [run EXCEPT
                                   !.all_data[chat] = "skipped - already cached",
                                   !.chats_skipped = @ + 1,
                                   !.i = @ + 1]
                     /\ current_status' = st
                     /\ UNCHANGED <<pc, scan>>
                ELSE /\ parse_chat_messages(st, chat, run.force_full_scan)
                     /\ pc' = "fetch"
                     /\ UNCHANGED run
    /\ UNCHANGED <<clock, scan_sessions, notifyVars, storeVars, ret, remoteVars, governorVars, statusVars, bridgeVars, sessions_opened>>

\* One turn of the for loop of parse_all_chats, up to the first fetch of the pull.
ParseAllChatsNext ==
    /\ pc = "all_loop"
    /\ IF run.i > Len(run.chats)
       THEN /\ pc' = "all_end"
            /\ UNCHANGED <<run, scan, current_status>>
       ELSE IF check_interruption_requested
       THEN /\ pc' = "all_end"
            /\ run' = [run EXCEPT !.broke = TRUE]
            /\ UNCHANGED <<scan, current_status>>
       ELSE LET chat == run.chats[run.i]
                st == update_status(current_status, Null,
                                    [processed_chats |-> run.i - 1])
            IN  IF ~run.force_full_scan /\ _should_skip_chat(messages, chat)
                THEN /\ run' = [run EXCEPT
                                   !.all_data[chat] = "skipped - already cached",
                                   !.chats_skipped = @ + 1,
                                   !.i = @ + 1]
                     /\ current_status' = st
                     /\ UNCHANGED <<pc, scan>>
                ELSE /\ parse_chat_messages(st, chat, run.force_full_scan)
                     /\ pc' = "fetch"
                     /\ UNCHANGED run
    /\ UNCHANGED <<clock, scan_sessions, notifyVars, storeVars, ret, remoteVars, governorVars, statusVars, bridgeVars, sessions_opened>>

\* The end of parse_all_chats: close_scan_session(session_id, stats) sets the
\* end_time and the counters of the session's row; update_status('idle'), return.
ParseAllChatsEnd ==
    /\ pc = "all_end"
    /\ run' = [run EXCEPT !.returned = TRUE, !.closed = TRUE,
                          !.closed_stats = [total_chats |-> run.chats_parsed]]
    /\ current_status' = update_status(current_status, "idle", NoProgress)
    /\ pc' = "idle"
    /\ UNCHANGED <<clock, scan_sessions, notifyVars, storeVars, ret, remoteVars, governorVars, statusVars, bridgeVars, scan, sessions_opened>>

\* -------------------------------------------------------- realtime bridge
NoPush ==
    [pc |-> "idle", kind |-> "none", chat_id |-> 0, message_id |-> 0,
     text |-> Null, old_content |-> NoRow]

NoPoll == [pc |-> "idle", chat_id |-> 0, message_id |-> 0, text |-> Null,
           existing |-> NoRow]

NoEvent == "none"

\* Time is counted in ticks of 1/8 s, the finest grain of the waits below.
TicksPerSecond == 2 ^ 3

\* config.RATE_LIMITING and the default of _safe_request's max_retries
max_retries == 3
max_flood_wait == 300                        \* seconds
delay_between_requests == TicksPerSecond \div 2   \* 0.5 s, in ticks

\* No _safe_request call was made yet: last_request_time = 0, the clock reads
\* some later time.
NoRequest ==
    [pc |-> "idle", calls |-> 0, now |-> TicksPerSecond, last_request_time |-> 0,
     prev_end |-> 0, request |-> "none", outcome |-> "none", seconds |-> 0,
     awaited |-> FALSE, attempt |-> 0, awaits |-> 0, exc |-> "none",
     duration |-> 0, slept |-> 0, result |-> "none"]

\* A status record of StatusManager, and the absence of one (None)
NoStatus ==
    [is_active |-> FALSE, current_operation |-> Null,
     interruption_requested |-> FALSE]

\* os.path.exists(STATUS_FILE) is false. A file that exists is torn from the
\* open(STATUS_FILE, 'w') of _save_status until json.dump has written the
\* record `writing`; `status` is the last record written in full.
NoFile == [exists |-> FALSE, torn |-> FALSE, status |-> NoStatus,
           writing |-> NoStatus]

\* What the last StatusManager.get_status() of the reading process returned
NoWeb == [observed |-> "never", status |-> NoStatus]

\* The message a scan polls while the bridge listens, and the chat lists
\* start_monitoring is given ({} monitors every chat).
PolledKeys == {<<1, 1>>}
PolledChats == {k[1] : k \in PolledKeys}
MonitoredChatLists == {{}, {1}}

\* RealtimeMonitor.__init__
InitBridge ==
    /\ realtime_changes_log = <<>>
    /\ monitor = [is_running |-> FALSE, monitored_chats |-> {}, log |-> "none"]
    /\ push = NoPush
    /\ poll = NoPoll
    /\ events = NoEvent

\* TelegramParser.__init__; no _safe_request call yet
InitGovernor ==
    /\ account_restricted = FALSE
    /\ req = NoRequest

\* No parser registered with StatusManager, no web request in progress
InitStatusFile ==
    /\ status_file = NoFile
    /\ web = NoWeb

\* `if self.monitored_chats and event.chat_id not in self.monitored_chats: return`
Monitored(chat_id) ==
    monitor.monitored_chats = {} \/ chat_id \in monitor.monitored_chats

\* _get_message_from_db: SELECT * FROM messages WHERE chat_id = ? AND id = ?
_get_message_from_db(chat_id, message_id) == messages[<<chat_id, message_id>>]

start_monitoring_no_running_test ==
    \E chat_ids \in MonitoredChatLists :
        /\ monitor' = [is_running |-> TRUE, monitored_chats |-> chat_ids,
                       log |-> "Started monitoring"]
        /\ UNCHANGED <<clock, scan_sessions, notifyVars, storeVars, ret, remoteVars, governorVars, statusVars, parserVars,
                       realtime_changes_log, push, poll, events>>

\* start_monitoring(chat_ids); monitor.log is the line it wrote to the logger
start_monitoring ==
    \E chat_ids \in MonitoredChatLists :
        /\ monitor' = IF monitor.is_running
                      THEN [monitor EXCEPT !.log = "Monitor is already running"]
                      ELSE [is_running |-> TRUE, monitored_chats |-> chat_ids,
                            log |-> "Started monitoring"]
        /\ UNCHANGED <<clock, scan_sessions, notifyVars, storeVars, ret, remoteVars, governorVars, statusVars, parserVars,
                       realtime_changes_log, push, poll, events>>

\* stop_monitoring()
stop_monitoring ==
    /\ monitor' = [monitor EXCEPT !.is_running = FALSE,
                                  !.log = "Stopped monitoring"]
    /\ UNCHANGED <<clock, scan_sessions, notifyVars, storeVars, ret, remoteVars, governorVars, statusVars, parserVars,
                   realtime_changes_log, push, poll, events>>

PushArrives_no_allow_list(kind, chat_id, message_id, text) ==
    /\ push.pc \in {"idle", "returned"}
    /\ push' = [pc |-> "log", kind |-> kind, chat_id |-> chat_id,
                message_id |-> message_id, text |-> text,
                old_content |-> _get_message_from_db(chat_id, message_id)]
    /\ UNCHANGED <<clock, scan_sessions, notifyVars, storeVars, ret, remoteVars, governorVars, statusVars, parserVars,
                   realtime_changes_log, monitor, poll, events>>

\* A push notification arrives: the allow-list test, on which the handler
\* returns at once for a chat that is not monitored; otherwise
\* _log_message_change reads the stored row and suspends in _get_chat_info.
PushArrives(kind, chat_id, message_id, text) ==
    /\ push.pc \in {"idle", "returned"}
    /\ push' = IF Monitored(chat_id)
               THEN [pc |-> "log", kind |-> kind, chat_id |-> chat_id,
                     message_id |-> message_id, text |-> text,
                     old_content |-> _get_message_from_db(chat_id, message_id)]
               ELSE [NoPush EXCEPT !.pc = "returned", !.kind = kind,
                                   !.chat_id = chat_id]
    /\ UNCHANGED <<clock, scan_sessions, notifyVars, storeVars, ret, remoteVars, governorVars, statusVars, parserVars,
                   realtime_changes_log, monitor, poll, events>>

\* handle_message_edited, up to the suspension in _log_message_change
handle_message_edited ==
    \E k \in Keys, t \in Texts : PushArrives("edited", k[1], k[2], t)

\* handle_message_deleted, for one id of event.deleted_ids
handle_message_deleted ==
    \E k \in Keys : PushArrives("deleted", k[1], k[2], Null)

EditPushLog_writes_store ==
    /\ push.pc = "log"
    /\ push.kind = "edited"
    /\ LET out == save_decide_write(messages, message_history, push.old_content,
                      [id |-> push.message_id, chat_id |-> push.chat_id,
                       text |-> push.text], 0)
       IN  /\ Len(out.message_history) <= MaxBridgeHistory
           /\ messages' = out.messages
           /\ message_history' = out.message_history
    /\ push' = [push EXCEPT !.pc = "idle"]
    /\ events' = "message_edited"
    /\ UNCHANGED <<clock, scan_sessions, notifyVars, ret, remoteVars, governorVars, statusVars, parserVars,
                   realtime_changes_log, monitor, poll>>

\* The rest of handle_message_edited. new_content holds message.date, a
\* datetime: json.dumps raises TypeError, which _log_message_change catches and
\* logs, so no row is inserted; the callbacks are notified all the same.
EditPushLog ==
    /\ push.pc = "log"
    /\ push.kind = "edited"
    /\ push' = [push EXCEPT !.pc = "idle"]
    /\ events' = "message_edited"
    /\ UNCHANGED <<clock, scan_sessions, notifyVars, storeVars, ret, remoteVars, governorVars, statusVars, parserVars,
                   realtime_changes_log, monitor, poll>>

DeletePushLog_tombstones ==
    /\ push.pc = "log"
    /\ push.kind = "deleted"
    /\ Len(realtime_changes_log) < MaxChangesLog
    /\ Len(message_history) < MaxBridgeHistory
    /\ realtime_changes_log' =
           Append(realtime_changes_log,
                  [chat_id |-> push.chat_id, message_id |-> push.message_id,
                   action_type |-> "deleted", old_content |-> push.old_content,
                   new_content |-> Null])
    /\ LET key == <<push.chat_id, push.message_id>>
       IN  IF messages[key].present /\ ~messages[key].is_deleted
           THEN /\ messages' = [messages EXCEPT ![key].is_deleted = TRUE]
                /\ message_history' =
                       _log_message_change(message_history, push.message_id,
                           push.chat_id, "deleted", messages[key].text, Null, 0)
           ELSE UNCHANGED storeVars
    /\ push' = [push EXCEPT !.pc = "idle"]
    /\ events' = "message_deleted"
    /\ UNCHANGED <<clock, scan_sessions, notifyVars, ret, remoteVars, governorVars, statusVars, parserVars, monitor, poll>>

\* The rest of handle_message_deleted: the INSERT INTO realtime_changes_log
\* with old_content = the row read, new_content = None; then the callbacks.
DeletePushLog ==
    /\ push.pc = "log"
    /\ push.kind = "deleted"
    /\ Len(realtime_changes_log) < MaxChangesLog
    /\ realtime_changes_log' =
           Append(realtime_changes_log,
                  [chat_id |-> push.chat_id, message_id |-> push.message_id,
                   action_type |-> "deleted", old_content |-> push.old_content,
                   new_content |-> Null])
    /\ push' = [push EXCEPT !.pc = "idle"]
    /\ events' = "message_deleted"
    /\ UNCHANGED <<clock, scan_sessions, notifyVars, storeVars, ret, remoteVars, governorVars, statusVars, parserVars, monitor, poll>>

\* A polled observation, first half: the SELECT of save_message_with_history.
PollRead ==
    \E k \in PolledKeys, t \in Texts :
        /\ poll.pc = "idle"
        /\ poll' = [pc |-> "write", chat_id |-> k[1], message_id |-> k[2],
                    text |-> t, existing |-> messages[k]]
        /\ UNCHANGED <<clock, scan_sessions, notifyVars, storeVars, ret, remoteVars, governorVars, statusVars, parserVars,
                       realtime_changes_log, monitor, push, events>>

\* A polled observation, second half: the INSERT / UPDATE and the history row.
PollWrite ==
    /\ poll.pc = "write"
    /\ LET out == save_decide_write(messages, message_history, poll.existing,
                      [id |-> poll.message_id, chat_id |-> poll.chat_id,
                       text |-> poll.text], 1)
       IN  /\ Len(out.message_history) <= MaxBridgeHistory
           /\ messages' = out.messages
           /\ message_history' = out.message_history
    /\ poll' = NoPoll
    /\ UNCHANGED <<clock, scan_sessions, notifyVars, ret, remoteVars, governorVars, statusVars, parserVars,
                   realtime_changes_log, monitor, push, events>>

\* The end of a full pull: mark_deleted_messages over the ids it saw.
PollMarkDeleted ==
    \E c \in PolledChats : \E O \in SUBSET IdsOf(c) :
        /\ poll.pc = "idle"
        /\ LET out == mark_deleted_messages(messages, message_history, c, O, 1)
           IN  /\ Len(out.message_history) <= MaxBridgeHistory
               /\ messages' = out.messages
               /\ message_history' = out.message_history
        /\ UNCHANGED <<clock, scan_sessions, notifyVars, ret, remoteVars, governorVars, statusVars, parserVars, bridgeVars>>

\* ------------------------------------------------------ NotificationManager
\* The queues of three stream clients. monitor_stream creates its queue with
\* Queue(), which never rejects an item; queue 3 stands for a listener whose
\* queue holds one item at most and rejects the next (queue.Full).
Queues == {1, 2, 3}
maxsize == [q \in Queues |-> IF q = 3 THEN 1 ELSE 0]

EventTypes == {"message_edited", "message_deleted"}
NoNotify == [pc |-> "idle", event |-> [type |-> "none", n |-> 0],
             dead_listeners |-> <<>>]

\* NotificationManager.__init__
InitNotify ==
    /\ listeners = <<>>
    /\ event_queue = <<>>
    /\ client_queues = [q \in Queues |-> <<>>]
    /\ notifier = NoNotify

Range(seq) == {seq[i] : i \in 1..Len(seq)}

\* safe_json_dumps(event): the JSON text of the event
safe_json_dumps(event) == <<"json", event.type, event.n>>

\* queue.put_nowait(item) raises queue.Full
Full(queue, q) == maxsize[q] > 0 /\ Len(queue) >= maxsize[q]

\* list.remove(x): the first occurrence of x goes
RECURSIVE Remove(_, _)
Remove(seq, x) ==
    IF seq = <<>> THEN <<>>
    ELSE IF Head(seq) = x THEN Tail(seq)
    ELSE <<Head(seq)>> \o Remove(Tail(seq), x)

RECURSIVE RemoveAll(_, _)
RemoveAll(seq, dead) ==
    IF dead = <<>> THEN seq ELSE RemoveAll(Remove(seq, Head(dead)), Tail(dead))

\* notify_loop without the try / except around put_nowait: the first
\* queue.Full ends the loop.
RECURSIVE notify_loop_no_except(_, _, _, _)
notify_loop_no_except(ls, qs, item, dead) ==
    IF ls = <<>>
    THEN [client_queues |-> qs, dead_listeners |-> dead]
    ELSE LET q == Head(ls)
         IN  IF Full(qs[q], q)
             THEN [client_queues |-> qs, dead_listeners |-> dead]
             ELSE notify_loop_no_except(Tail(ls), [qs EXCEPT ![q] = Append(@, item)],
                                        item, dead)

\* `for listener_queue in self.listeners:` with its try / except
RECURSIVE notify_loop(_, _, _, _)
notify_loop(ls, qs, item, dead) ==
    IF ls = <<>>
    THEN [client_queues |-> qs, dead_listeners |-> dead]
    ELSE LET q == Head(ls)
         IN  IF Full(qs[q], q)
             THEN notify_loop(Tail(ls), qs, item, Append(dead, q))
             ELSE notify_loop(Tail(ls), [qs EXCEPT ![q] = Append(@, item)],
                              item, dead)

\* monitor_stream: a client connects; its fresh queue is added
add_listener ==
    \E q \in Queues :
        /\ q \notin Range(listeners)
        /\ listeners' = Append(listeners, q)
        /\ client_queues' = [client_queues EXCEPT ![q] = <<>>]
        /\ UNCHANGED <<clock, scan_sessions, storeVars, ret, remoteVars, parserVars, bridgeVars,
                       governorVars, statusVars, event_queue, notifier>>

\* remove_listener(queue): the client disconnected
remove_listener ==
    \E q \in Queues :
        /\ listeners' = IF q \in Range(listeners) THEN Remove(listeners, q)
                        ELSE listeners
        /\ UNCHANGED <<clock, scan_sessions, storeVars, ret, remoteVars, parserVars, bridgeVars,
                       governorVars, statusVars, event_queue, client_queues,
                       notifier>>

\* monitor_stream: client_queue.get() hands the next item to the client
client_queue_get ==
    \E q \in Queues :
        /\ client_queues[q] # <<>>
        /\ client_queues' = [client_queues EXCEPT ![q] = Tail(@)]
        /\ UNCHANGED <<clock, scan_sessions, storeVars, ret, remoteVars, parserVars, bridgeVars,
                       governorVars, statusVars, listeners, event_queue,
                       notifier>>

\* notify(event_type, data), up to the lock: the event is put on event_queue
notify ==
    \E event_type \in EventTypes :
        /\ notifier.pc = "idle"
        /\ Len(event_queue) < MaxEvents
        /\ LET event == [type |-> event_type, n |-> Len(event_queue) + 1]
           IN  /\ event_queue' = Append(event_queue, event)
               /\ notifier' = [pc |-> "lock", event |-> event,
                               dead_listeners |-> <<>>]
        /\ UNCHANGED <<clock, scan_sessions, storeVars, ret, remoteVars, parserVars, bridgeVars,
                       governorVars, statusVars, listeners, client_queues>>

\* notify, under the lock: the loop over the listeners, then the removal of
\* the dead ones
notify_locked ==
    /\ notifier.pc = "lock"
    /\ LET out == notify_loop(listeners, client_queues,
                              safe_json_dumps(notifier.event), <<>>)
       IN  /\ client_queues' = out.client_queues
           /\ listeners' = RemoveAll(listeners, out.dead_listeners)
           /\ notifier' = [notifier EXCEPT !.pc = "idle",
                                           !.dead_listeners = out.dead_listeners]
    /\ UNCHANGED <<clock, scan_sessions, storeVars, ret, remoteVars, parserVars, bridgeVars,
                   governorVars, statusVars, event_queue>>

\* The first loop of get_recent_events: `while not self.event_queue.empty() and
\* len(events) < limit`, get_nowait() taking the head of the FIFO queue.
RECURSIVE get_recent_events_take(_, _, _)
get_recent_events_take(queue, taken_events, limit) ==
    IF queue # <<>> /\ Len(taken_events) < limit
    THEN get_recent_events_take(Tail(queue), Append(taken_events, Head(queue)), limit)
    ELSE [event_queue |-> queue, events |-> taken_events]

\* get_recent_events(limit): the events taken are put back with put(), which
\* adds at the tail of what was left in the queue.
get_recent_events(queue, limit) ==
    LET taken == get_recent_events_take(queue, <<>>, limit)
    IN  [event_queue |-> taken.event_queue \o taken.events,
         events |-> taken.events]

\* The limits get_recent_events is called with; 50 is the default.
Limits == {0, 1, 2, 50}

\* A caller reads the recent events; ret keeps the limit, the buffer as it was
\* before the call and the list returned.
CallGetRecentEvents ==
    \E limit \in Limits :
        LET out == get_recent_events(event_queue, limit)
        IN  /\ event_queue' = out.event_queue
            /\ ret' = [op |-> "get_recent_events", chat_id |-> 0, ids |-> {},
                       result |-> out.events, limit |-> limit,
                       before |-> event_queue]
            /\ UNCHANGED <<clock, scan_sessions, storeVars, remoteVars, parserVars, bridgeVars,
                           governorVars, statusVars, listeners, client_queues,
                           notifier>>

\* ------------------------------------------- the store, called directly
InitStore ==
    /\ clock = 0
    /\ scan_sessions = NoSessions
    /\ messages = [k \in Keys |-> NoRow]
    /\ message_history = <<>>
    /\ ret = NoCall
    /\ remote = [k \in Keys |-> IF k = <<1, 2>> THEN NotYet ELSE "a"]
    /\ remote_changes = 0
    /\ pc = "idle"
    /\ current_status = InitStatus
    /\ run = NoRun
    /\ scan = NoScan
    /\ sessions_opened = 0
    /\ InitBridge
    /\ InitGovernor
    /\ InitStatusFile
    /\ InitNotify

CallSave ==
    \E c \in Chats, t \in Texts, s \in DirectSessions : \E m \in IdsOf(c) :
        LET out == save_message_with_history(messages, message_history,
                       [id |-> m, chat_id |-> c, text |-> t], s)
        IN  /\ Len(out.message_history) <= MaxHistory
            /\ messages' = out.messages
            /\ message_history' = out.message_history
            /\ ret' = NoCall
            /\ UNCHANGED <<clock, scan_sessions, notifyVars, remoteVars, governorVars, statusVars, bridgeVars, parserVars>>

CallMarkDeleted ==
    \E c \in Chats, O \in SUBSET MsgIds, s \in DirectSessions :
        LET out == mark_deleted_messages(messages, message_history, c, O, s)
        IN  /\ Len(out.message_history) <= MaxHistory
            /\ messages' = out.messages
            /\ message_history' = out.message_history
            /\ ret' = [op |-> "mark_deleted_messages", chat_id |-> c,
                       ids |-> O, result |-> out.deleted_count]
            /\ UNCHANGED <<clock, scan_sessions, notifyVars, remoteVars, governorVars, statusVars, bridgeVars, parserVars>>

NextStore == CallSave \/ CallMarkDeleted

SpecStore == InitStore /\ [][NextStore]_vars

\* The store when a write fails.
\* The write statements a save_message_with_history call executes on its
\* connection after the SELECT returned `existing`, in order.
Statement(op, message_id, action, old_text, new_text, views) ==
    [op |-> op, message_id |-> message_id, action |-> action,
     old_text |-> old_text, new_text |-> new_text, views |-> views]

save_statements(existing, message_data) ==
    LET message_id == message_data.id
        current_text == message_data.text
        views == get(message_data, "views", 0)
    IN  IF existing.present
        THEN (IF existing.text # current_text /\ ~existing.is_deleted
              THEN <<Statement("log", message_id, "edited", existing.text,
                               current_text, 0)>>
              ELSE <<>>)
             \o <<Statement("UPDATE text", message_id, "none", Null, current_text,
                            views)>>
        ELSE <<Statement("INSERT", message_id, "none", Null, current_text, views),
               Statement("log", message_id, "created", Null, current_text, 0)>>

\* The write statements of mark_deleted_messages over the selected rows.
RECURSIVE mark_statements(_, _, _)
mark_statements(msgs, chat_id, todo) ==
    IF todo = {}
    THEN <<>>
    ELSE LET m == Min(todo)
         IN  <<Statement("UPDATE is_deleted", m, "none", Null, Null, 0),
               Statement("log", m, "deleted", msgs[<<chat_id, m>>].text, Null, 0)>>
             \o mark_statements(msgs, chat_id, todo \ {m})

\* conn.execute of one statement
execute(db, chat_id, st, session_id) ==
    LET key == <<chat_id, st.message_id>>
    IN  CASE st.op = "log" ->
                 [db EXCEPT !.message_history =
                     _log_message_change(@, st.message_id, chat_id, st.action,
                                         st.old_text, st.new_text, session_id)]
          [] st.op = "INSERT" ->
                 [db EXCEPT !.messages[key] =
                                [Row(st.new_text, FALSE) EXCEPT !.views = st.views]]
          [] st.op = "UPDATE text" ->
                 [db EXCEPT !.messages[key].text = st.new_text,
                            !.messages[key].views = st.views]
          [] OTHER ->
                 [db EXCEPT !.messages[key].is_deleted = TRUE]

\* The first n statements, executed in order.
RECURSIVE execute_first(_, _, _, _, _)
execute_first(db, chat_id, stmts, n, session_id) ==
    IF n = 0 \/ stmts = <<>>
    THEN db
    ELSE execute_first(execute(db, chat_id, Head(stmts), session_id),
                       chat_id, Tail(stmts), n - 1, session_id)

transaction_no_rollback(db, chat_id, stmts, fail_at, session_id) ==
    execute_first(db, chat_id, stmts, fail_at - 1, session_id)

\* `with sqlite3.connect(self.db_path) as conn:` around the statements, the
\* fail_at-th of which raises: the connection's __exit__ rolls back on an
\* exception and commits otherwise.
transaction(db, chat_id, stmts, fail_at, session_id) ==
    IF fail_at <= Len(stmts)
    THEN db
    ELSE execute_first(db, chat_id, stmts, Len(stmts), session_id)

\* save_message_with_history, one of whose writes raises
CallSaveFails ==
    \E c \in Chats, t \in Texts, s \in DirectSessions : \E m \in IdsOf(c) :
        LET stmts == save_statements(messages[<<c, m>>],
                                     [id |-> m, chat_id |-> c, text |-> t])
        IN  \E fail_at \in 1..Len(stmts) :
                LET out == transaction([messages |-> messages,
                                        message_history |-> message_history],
                                       c, stmts, fail_at, s)
                IN  /\ Len(out.message_history) <= MaxHistory
                    /\ messages' = out.messages
                    /\ message_history' = out.message_history
                    /\ ret' = [op |-> "save_message_with_history raised",
                               chat_id |-> c, ids |-> {m}, result |-> fail_at]
                    /\ UNCHANGED <<clock, scan_sessions, notifyVars, remoteVars, governorVars, statusVars,
                                   bridgeVars, parserVars>>

\* mark_deleted_messages, one of whose writes raises
CallMarkDeletedFails ==
    \E c \in Chats, O \in SUBSET MsgIds, s \in DirectSessions :
        LET stmts == mark_statements(messages, c,
                                     deleted_messages(messages, c, O))
        IN  \E fail_at \in 1..Len(stmts) :
                LET out == transaction([messages |-> messages,
                                        message_history |-> message_history],
                                       c, stmts, fail_at, s)
                IN  /\ Len(out.message_history) <= MaxHistory
                    /\ messages' = out.messages
                    /\ message_history' = out.message_history
                    /\ ret' = [op |-> "mark_deleted_messages raised",
                               chat_id |-> c, ids |-> O, result |-> fail_at]
                    /\ UNCHANGED <<clock, scan_sessions, notifyVars, remoteVars, governorVars, statusVars,
                                   bridgeVars, parserVars>>

NextTxn == CallSave \/ CallMarkDeleted \/ CallSaveFails \/ CallMarkDeletedFails

SpecTxn == InitStore /\ [][NextTxn]_vars

\* The bridge beside a polling scan of the same store.
NextBridge ==
    \/ start_monitoring \/ stop_monitoring
    \/ handle_message_edited \/ handle_message_deleted
    \/ EditPushLog \/ DeletePushLog
    \/ PollRead \/ PollWrite \/ PollMarkDeleted

SpecBridge == InitStore /\ [][NextBridge]_vars

\* The view counters a message is observed with.
Views == {0, 7}

\* save_message_with_history called with what was observed of the polled
\* message; ret keeps the call's message_data and the row its SELECT returned.
CallSaveObserved ==
    \E k \in PolledKeys, t \in Texts, v \in Views, s \in DirectSessions :
        LET message_data == [id |-> k[2], chat_id |-> k[1], text |-> t, views |-> v]
            out == save_message_with_history(messages, message_history,
                                             message_data, s)
        IN  /\ Len(out.message_history) <= MaxBridgeHistory
            /\ messages' = out.messages
            /\ message_history' = out.message_history
            /\ ret' = [op |-> "save_message_with_history", chat_id |-> k[1],
                       ids |-> {k[2]}, result |-> 0,
                       message_data |-> message_data, existing |-> messages[k]]
            /\ UNCHANGED <<clock, scan_sessions, notifyVars, remoteVars, governorVars, statusVars,
                           bridgeVars, parserVars>>

\* Observations of one message, with its counters, and scan ends.
NextObserve == CallSaveObserved \/ CallMarkDeleted

SpecObserve == InitStore /\ [][NextObserve]_vars

\* save_message_with_history called for a message of any conversation; ret
\* keeps the call's message_data.
CallSaveRecorded ==
    \E k \in Keys, t \in Texts, s \in DirectSessions :
        LET message_data == [id |-> k[2], chat_id |-> k[1], text |-> t]
            out == save_message_with_history(messages, message_history,
                                             message_data, s)
        IN  /\ Len(out.message_history) <= MaxHistory
            /\ messages' = out.messages
            /\ message_history' = out.message_history
            /\ ret' = [op |-> "save_message_with_history", chat_id |-> k[1],
                       ids |-> {k[2]}, result |-> 0,
                       message_data |-> message_data]
            /\ UNCHANGED <<clock, scan_sessions, notifyVars, remoteVars, governorVars, statusVars,
                           bridgeVars, parserVars>>

\* Saves and scan ends of two conversations that share a message id.
NextIdentity == CallSaveRecorded \/ CallMarkDeleted

SpecIdentity == InitStore /\ [][NextIdentity]_vars

\* A second passes.
Tick ==
    /\ clock < MaxClock
    /\ clock' = clock + 1
    /\ UNCHANGED <<storeVars, ret, remoteVars, parserVars, bridgeVars, governorVars,
                   statusVars, notifyVars, scan_sessions>>

\* Polled observations of one message and scan ends, as the seconds pass.
NextClock == PollRead \/ PollWrite \/ PollMarkDeleted \/ Tick

SpecClock == InitStore /\ [][NextClock]_vars

\* Scan sessions are created and closed as the seconds pass.
NextSession == create_scan_session \/ close_scan_session \/ Tick

SpecSession == InitStore /\ [][NextSession]_vars

\* should_check_for_changes: TRUE without history of the chat, otherwise the
\* age of the newest entry decides.
should_check_for_changes(hist, chat_id) ==
    IF \A i \in 1..Len(hist) : hist[i].chat_id # chat_id
    THEN {TRUE}
    ELSE BOOLEAN

\* check_for_changes, up to the for loop (no update_status call is made)
CheckForChangesStart ==
    \E target \in Chats \cup {0}, listed \in ChatLists :
        /\ pc = "idle"
        /\ IF account_restricted
           THEN \* return {'error': 'Account restricted'}
                /\ run' = [NoRun EXCEPT !.kind = "changes", !.returned = TRUE,
                                        !.error = "Account restricted"]
                /\ UNCHANGED <<pc, sessions_opened>>
           ELSE /\ CanOpenSession
                /\ sessions_opened' = sessions_opened + 1
                /\ run' = [NoRun EXCEPT
                               !.kind = "changes", !.force_full_scan = TRUE,
                               !.chats = IF target # 0 THEN <<target>> ELSE listed,
                               !.i = 1,
                               !.session_id = sessions_opened + 1]
                /\ pc' = "changes_loop"
        /\ scan' = NoScan
        /\ UNCHANGED <<clock, scan_sessions, notifyVars, storeVars, ret, remoteVars, governorVars, statusVars, bridgeVars, current_status>>

\* One turn of the for loop of check_for_changes, up to the first fetch.
CheckForChangesNext ==
    /\ pc = "changes_loop"
    /\ IF run.i > Len(run.chats)
       THEN /\ pc' = "changes_end"
            /\ UNCHANGED <<run, scan, current_status>>
       ELSE LET chat == run.chats[run.i]
            IN  \E check \in should_check_for_changes(message_history, chat) :
                    IF ~check
                    THEN /\ run' = [run EXCEPT !.i = @ + 1]
                         /\ UNCHANGED <<pc, scan, current_status>>
                    ELSE /\ parse_chat_messages(current_status, chat, TRUE)
                         /\ pc' = "fetch"
                         /\ UNCHANGED run
    /\ UNCHANGED <<clock, scan_sessions, notifyVars, storeVars, ret, remoteVars, governorVars, statusVars, bridgeVars, sessions_opened>>

\* The end of check_for_changes: close_scan_session(session_id, stats), return.
CheckForChangesEnd ==
    /\ pc = "changes_end"
    /\ run' = [run EXCEPT !.returned = TRUE, !.closed = TRUE,
                          !.closed_stats = [total_chats |-> run.chats_checked]]
    /\ pc' = "idle"
    /\ UNCHANGED <<clock, scan_sessions, notifyVars, storeVars, ret, remoteVars, governorVars, statusVars, bridgeVars, scan, current_status, sessions_opened>>

\* parse_single_chat of the CLI: one session, one parse_chat_messages call.
ParseSingleChatStart ==
    \E chat \in Chats :
        /\ pc = "idle"
        /\ CanOpenSession
        /\ sessions_opened' = sessions_opened + 1
        /\ run' = [NoRun EXCEPT !.kind = "single", !.chats = <<chat>>, !.i = 1,
                                !.session_id = sessions_opened + 1]
        /\ parse_chat_messages(current_status, chat, FALSE)
        /\ pc' = "fetch"
        /\ UNCHANGED <<clock, scan_sessions, notifyVars, storeVars, ret, remoteVars, governorVars, statusVars, bridgeVars>>

\* `async for message in self.client.iter_messages(...)`: the next message of
\* the stream, read from the remote side when it is fetched.
IterMessages(kind) ==
    /\ pc = "fetch"
    /\ scan.kind = kind
    /\ scan.todo # <<>>
    /\ LET m == Head(scan.todo)
           v == remote[<<scan.chat_id, m>>]
       IN  IF IsLive(v)
           THEN /\ scan' = [scan EXCEPT !.message = [present |-> TRUE, id |-> m,
                                                     text |-> TextOrEmpty(v)],
                                        !.todo = Tail(@)]
                /\ pc' = "save"
           ELSE /\ scan' = [scan EXCEPT !.todo = Tail(@)]
                /\ pc' = "fetch"
    /\ UNCHANGED <<clock, scan_sessions, notifyVars, storeVars, ret, remoteVars, governorVars, statusVars, bridgeVars, current_status, run, sessions_opened>>

\* The loop body after the pacing sleep: collect the id, write the message.
SaveFetched(kind) ==
    /\ pc = "save"
    /\ scan.kind = kind
    /\ LET out == save_message_with_history(messages, message_history,
                      [id |-> scan.message.id, chat_id |-> scan.chat_id,
                       text |-> scan.message.text], run.session_id)
       IN  /\ messages' = out.messages
           /\ message_history' = out.message_history
    /\ scan' = [scan EXCEPT !.current_message_ids = @ \cup {scan.message.id},
                            !.message = NoMessage]
    /\ pc' = "fetch"
    /\ UNCHANGED <<clock, scan_sessions, notifyVars, ret, remoteVars, governorVars, statusVars, bridgeVars, current_status, run, sessions_opened>>

\* The pull returned its messages to the caller.
ReturnToCaller ==
    CASE run.kind = "all" ->
             /\ run' = [run EXCEPT !.all_data[scan.chat_id] = "parsed",
                                   !.chats_parsed = @ + 1,
                                   !.i = @ + 1]
             /\ pc' = "all_loop"
      [] run.kind = "changes" ->
             /\ run' = [run EXCEPT !.chats_checked = @ + 1, !.i = @ + 1]
             /\ pc' = "changes_loop"
      [] OTHER ->
             \* parse_single_chat exports and returns; it never calls
             \* close_scan_session
             /\ run' = [run EXCEPT !.returned = TRUE]
             /\ pc' = "idle"

ParseAllMessagesFetch == IterMessages("full")
ParseAllMessagesSave == SaveFetched("full")

\* ParseAllMessagesEnd handing mark_deleted_messages an empty id list.
ParseAllMessagesEnd_no_ids ==
    /\ pc = "fetch"
    /\ scan.kind = "full"
    /\ scan.todo = <<>>
    /\ LET out == mark_deleted_messages(messages, message_history, scan.chat_id,
                                        {}, run.session_id)
       IN  /\ messages' = out.messages
           /\ message_history' = out.message_history
           /\ ret' = [op |-> "mark_deleted_messages", chat_id |-> scan.chat_id,
                      ids |-> {}, result |-> out.deleted_count]
    /\ ReturnToCaller
    /\ UNCHANGED <<clock, scan_sessions, notifyVars, remoteVars, governorVars, statusVars, bridgeVars, current_status, scan, sessions_opened>>

\* The end of _parse_all_messages: mark_deleted_messages over the ids seen.
ParseAllMessagesEnd ==
    /\ pc = "fetch"
    /\ scan.kind = "full"
    /\ scan.todo = <<>>
    /\ LET out == mark_deleted_messages(messages, message_history, scan.chat_id,
                                        scan.current_message_ids, run.session_id)
       IN  /\ messages' = out.messages
           /\ message_history' = out.message_history
           /\ ret' = [op |-> "mark_deleted_messages", chat_id |-> scan.chat_id,
                      ids |-> scan.current_message_ids,
                      result |-> out.deleted_count]
    /\ ReturnToCaller
    /\ UNCHANGED <<clock, scan_sessions, notifyVars, remoteVars, governorVars, statusVars, bridgeVars, current_status, scan, sessions_opened>>

ParseNewMessagesFetch == IterMessages("new")
ParseNewMessagesSave == SaveFetched("new")

\* ParseNewMessagesEnd using the current_message_ids it collected, as the full
\* pull does.
ParseNewMessagesEnd_marks ==
    /\ pc = "fetch"
    /\ scan.kind = "new"
    /\ scan.todo = <<>>
    /\ LET out == mark_deleted_messages(messages, message_history, scan.chat_id,
                                        scan.current_message_ids, run.session_id)
       IN  /\ messages' = out.messages
           /\ message_history' = out.message_history
           /\ ret' = [op |-> "mark_deleted_messages", chat_id |-> scan.chat_id,
                      ids |-> scan.current_message_ids,
                      result |-> out.deleted_count]
    /\ ReturnToCaller
    /\ UNCHANGED <<clock, scan_sessions, notifyVars, remoteVars, governorVars, statusVars, bridgeVars, current_status, scan, sessions_opened>>

\* The end of _parse_new_messages_since: the final update_status, no store call.
ParseNewMessagesEnd ==
    /\ pc = "fetch"
    /\ scan.kind = "new"
    /\ scan.todo = <<>>
    /\ ReturnToCaller
    /\ UNCHANGED <<clock, scan_sessions, notifyVars, storeVars, ret, remoteVars, governorVars, statusVars, bridgeVars, current_status, scan, sessions_opened>>

\* The store left by an earlier program run (session 0) that pulled conversation 1
\* in full; conversation 2 was never pulled.
InitRun ==
    /\ clock = 0
    /\ scan_sessions = NoSessions
    /\ remote = [k \in Keys |-> IF k = <<1, 2>> THEN NotYet ELSE "a"]
    /\ remote_changes = 0
    /\ messages = [k \in Keys |-> IF k = <<1, 1>> THEN Row("a", FALSE) ELSE NoRow]
    /\ message_history = _log_message_change(<<>>, 1, 1, "created", Null, "a", 0)
    /\ ret = NoCall
    /\ pc = "idle"
    /\ current_status = InitStatus
    /\ run = NoRun
    /\ scan = NoScan
    /\ sessions_opened = 0
    /\ InitBridge
    /\ InitGovernor
    /\ InitStatusFile
    /\ InitNotify

NextRun ==
    \/ RemoteCreate \/ RemoteEdit \/ RemoteDelete
    \/ request_interruption
    \/ ParseAllChatsStart \/ ParseAllChatsNext \/ ParseAllChatsEnd
    \/ CheckForChangesStart \/ CheckForChangesNext \/ CheckForChangesEnd
    \/ ParseSingleChatStart
    \/ ParseAllMessagesFetch \/ ParseAllMessagesSave \/ ParseAllMessagesEnd
    \/ ParseNewMessagesFetch \/ ParseNewMessagesSave \/ ParseNewMessagesEnd

SpecRun == InitRun /\ [][NextRun]_vars

\* config.MAX_MESSAGES, handed to iter_messages as `limit`: None (0 here, every
\* message) or a count.
MessageLimits == {0, 1, 2}

RECURSIVE Take(_, _)
Take(seq, n) ==
    IF n = 0 \/ seq = <<>> THEN <<>> ELSE <<Head(seq)>> \o Take(Tail(seq), n - 1)

\* client.iter_messages(chat_id, limit=limit): Telethon yields, newest first,
\* at most `limit` of the messages of the conversation.
iter_messages_limit(chat_id, limit) ==
    IF limit = 0
    THEN Stream(IdsOf(chat_id))
    ELSE Take(Stream({m \in IdsOf(chat_id) : IsLive(remote[<<chat_id, m>>])}),
              limit)

\* One turn of the for loop of check_for_changes in a process whose
\* config.MAX_MESSAGES is set: parse_chat_messages(force_full_scan=True) goes
\* to _parse_all_messages, where `limit = config.MAX_MESSAGES`.
CheckForChangesNextLimited ==
    \E MAX_MESSAGES \in MessageLimits :
        /\ pc = "changes_loop"
        /\ IF run.i > Len(run.chats)
           THEN /\ pc' = "changes_end"
                /\ UNCHANGED <<run, scan, current_status>>
           ELSE LET chat == run.chats[run.i]
                IN  \E check \in should_check_for_changes(message_history, chat) :
                        IF ~check
                        THEN /\ run' = [run EXCEPT !.i = @ + 1]
                             /\ UNCHANGED <<pc, scan, current_status>>
                        ELSE /\ scan' = [NoScan EXCEPT
                                            !.kind = "full", !.chat_id = chat,
                                            !.todo = iter_messages_limit(chat,
                                                                         MAX_MESSAGES),
                                            !.replay = Synced(chat)]
                             /\ current_status' =
                                    update_status(current_status,
                                                  "parsing_full_chat", NoProgress)
                             /\ pc' = "fetch"
                             /\ UNCHANGED run
        /\ UNCHANGED <<clock, scan_sessions, notifyVars, storeVars, ret, remoteVars, governorVars,
                       statusVars, bridgeVars, sessions_opened>>

\* The store left by an earlier program run (session 0) that pulled both
\* messages of conversation 1; every remote message is there.
InitLimit ==
    /\ clock = 0
    /\ scan_sessions = NoSessions
    /\ remote = [k \in Keys |-> "a"]
    /\ remote_changes = 0
    /\ messages = [k \in Keys |-> IF k[1] = 1 THEN Row("a", FALSE) ELSE NoRow]
    /\ message_history =
           _log_message_change(
               _log_message_change(<<>>, 2, 1, "created", Null, "a", 0),
               1, 1, "created", Null, "a", 0)
    /\ ret = NoCall
    /\ pc = "idle"
    /\ current_status = InitStatus
    /\ run = NoRun
    /\ scan = NoScan
    /\ sessions_opened = 0
    /\ InitBridge
    /\ InitGovernor
    /\ InitStatusFile
    /\ InitNotify

\* Aggregate runs of one parser, one after the other, and interruption
\* requests; the remote side is still.
NextAggregate ==
    \/ request_interruption
    \/ ParseAllChatsStart \/ ParseAllChatsNext \/ ParseAllChatsEnd
    \/ ParseAllMessagesFetch \/ ParseAllMessagesSave \/ ParseAllMessagesEnd

SpecAggregate == InitRun /\ [][NextAggregate]_vars

\* ------------------------------------------------------------ _safe_request
Min2(a, b) == IF a <= b THEN a ELSE b

\* What the awaited request can do the first time it is awaited, the seconds a
\* FloodWaitError carries, how long the remote call takes, how long the caller
\* waits before the next _safe_request call (ticks).
Outcomes == {"ok", "FloodWaitError", "Exception"}
FloodSeconds == {10, 200, 301}
Durations == {0, TicksPerSecond}
IdleTimes == {0, delay_between_requests}

\* The awaitable handed to _safe_request: a coroutine, as initialize() passes
\* (awaiting it again raises RuntimeError), or a future (awaiting it again
\* yields its outcome again).
Requests == {"coroutine", "future"}

FloodWaitSleep_exponent_attempt(wait_time, attempt) ==
    Min2((wait_time * TicksPerSecond * 3 ^ attempt) \div 2 ^ attempt,
         max_flood_wait * TicksPerSecond)

\* wait_time * backoff_multiplier ** (attempt + 1), capped: multiplier 1.5 = 3/2
FloodWaitSleep(wait_time, attempt) ==
    Min2((wait_time * TicksPerSecond * 3 ^ (attempt + 1)) \div 2 ^ (attempt + 1),
         max_flood_wait * TicksPerSecond)

OnFloodWaitError_no_ceiling_test(r) ==
    LET actual_wait == FloodWaitSleep(r.seconds, r.attempt)
        t == [r EXCEPT !.slept = actual_wait, !.now = @ + actual_wait]
    IN  IF r.attempt = max_retries - 1
        THEN [t EXCEPT !.pc = "done", !.result = "FloodWaitError"]
        ELSE [t EXCEPT !.pc = "loop"]

\* `except FloodWaitError`: r is the call's state once the await has raised.
OnFloodWaitError(r) ==
    IF r.seconds > max_flood_wait
    THEN [r EXCEPT !.pc = "done", !.result = "FloodWaitError", !.slept = 0]
    ELSE LET actual_wait == FloodWaitSleep(r.seconds, r.attempt)
             t == [r EXCEPT !.slept = actual_wait, !.now = @ + actual_wait]
         IN  IF r.attempt = max_retries - 1
             THEN [t EXCEPT !.pc = "done", !.result = "FloodWaitError"]
             ELSE [t EXCEPT !.pc = "loop"]

OnException_never_raises(r) ==
    LET wait_time == (2 ^ r.attempt) * TicksPerSecond
    IN  [r EXCEPT !.pc = "loop", !.slept = wait_time, !.now = @ + wait_time]

\* `except Exception`
OnException(r) ==
    IF r.attempt = max_retries - 1
    THEN [r EXCEPT !.pc = "done", !.result = r.exc, !.slept = 0]
    ELSE LET wait_time == (2 ^ r.attempt) * TicksPerSecond
         IN  [r EXCEPT !.pc = "loop", !.slept = wait_time, !.now = @ + wait_time]

\* A caller invokes _safe_request(request), IdleTimes after the previous call.
SafeRequestCall ==
    \E request \in Requests, outcome \in Outcomes, seconds \in FloodSeconds,
       idle \in IdleTimes :
        /\ req.pc \in {"idle", "done"}
        /\ req.calls < MaxRequests
        /\ outcome # "FloodWaitError" => seconds = 10
        /\ req' = [req EXCEPT !.pc = "attempt", !.calls = @ + 1,
                              !.now = @ + idle, !.request = request,
                              !.outcome = outcome,
                              !.seconds = IF outcome = "FloodWaitError"
                                          THEN seconds ELSE 0,
                              !.awaited = FALSE, !.attempt = 0, !.awaits = 0,
                              !.exc = "none", !.duration = 0, !.slept = 0,
                              !.result = "none"]
        /\ UNCHANGED <<clock, scan_sessions, notifyVars, storeVars, ret, remoteVars, parserVars, bridgeVars,
                       account_restricted, statusVars>>

\* The top of one attempt: the pacing sleep, then last_request_time = now.
SafeRequestPace ==
    /\ req.pc = "attempt"
    /\ LET time_since_last == req.now - req.last_request_time
           sleep_time == IF time_since_last < delay_between_requests
                         THEN delay_between_requests - time_since_last
                         ELSE 0
       IN  req' = [req EXCEPT !.pc = "await", !.now = @ + sleep_time,
                              !.last_request_time = req.now + sleep_time]
    /\ UNCHANGED <<clock, scan_sessions, notifyVars, storeVars, ret, remoteVars, parserVars, bridgeVars,
                   account_restricted, statusVars>>

\* `result = await request` and the except clause it lands in. Only the first
\* await of the request issues the remote call.
SafeRequestAwait ==
    \E duration \in Durations :
        /\ req.pc = "await"
        /\ req.awaited => duration = 0
        /\ LET exc == IF ~req.awaited \/ req.request = "future"
                      THEN req.outcome
                      ELSE "RuntimeError"
               r == [req EXCEPT !.awaited = TRUE, !.awaits = @ + 1,
                                !.exc = exc, !.duration = duration,
                                !.now = @ + duration,
                                !.prev_end = IF req.awaited THEN @
                                             ELSE req.now + duration]
           IN  req' = CASE exc = "ok" ->
                               [r EXCEPT !.pc = "done", !.result = "ok", !.slept = 0]
                        [] exc = "FloodWaitError" -> OnFloodWaitError(r)
                        [] OTHER -> OnException(r)
        /\ UNCHANGED <<clock, scan_sessions, notifyVars, storeVars, ret, remoteVars, parserVars, bridgeVars,
                       account_restricted, statusVars>>

\* `for attempt in range(max_retries)`: the next attempt, or the end of the
\* loop, where the function returns None.
SafeRequestLoop ==
    /\ req.pc = "loop"
    /\ req' = IF req.attempt + 1 < max_retries
              THEN [req EXCEPT !.pc = "attempt", !.attempt = @ + 1]
              ELSE [req EXCEPT !.pc = "done", !.result = "None"]
    /\ UNCHANGED <<clock, scan_sessions, notifyVars, storeVars, ret, remoteVars, parserVars, bridgeVars,
                   account_restricted, statusVars>>

NextRequest ==
    SafeRequestCall \/ SafeRequestPace \/ SafeRequestAwait \/ SafeRequestLoop

SpecRequest == InitStore /\ [][NextRequest]_vars

\* ------------------------------------------ failures and account restriction
\* An exception raised inside the try block of _parse_all_messages or
\* _parse_new_messages_since (by iter_messages, _save_user_info or
\* save_message_with_history, whose transaction is rolled back): the except
\* clause prints it, mark_deleted_messages is not reached, and the messages
\* collected so far are returned.
PullRaises(kind) ==
    /\ pc \in {"fetch", "save"}
    /\ scan.kind = kind
    /\ scan' = [scan EXCEPT !.error = TRUE, !.message = NoMessage]
    /\ ReturnToCaller
    /\ UNCHANGED <<clock, scan_sessions, notifyVars, storeVars, ret, remoteVars, governorVars, statusVars, bridgeVars,
                   current_status, sessions_opened>>

\* ParseAllMessagesRaises with the mark_deleted_messages call moved behind the
\* try block, where it runs after a failed pull too.
ParseAllMessagesRaises_then_marks ==
    /\ pc \in {"fetch", "save"}
    /\ scan.kind = "full"
    /\ scan' = [scan EXCEPT !.error = TRUE, !.message = NoMessage]
    /\ LET out == mark_deleted_messages(messages, message_history, scan.chat_id,
                                        scan.current_message_ids, run.session_id)
       IN  /\ messages' = out.messages
           /\ message_history' = out.message_history
           /\ ret' = [op |-> "mark_deleted_messages", chat_id |-> scan.chat_id,
                      ids |-> scan.current_message_ids,
                      result |-> out.deleted_count]
    /\ ReturnToCaller
    /\ UNCHANGED <<clock, scan_sessions, notifyVars, remoteVars, governorVars, statusVars, bridgeVars,
                   current_status, sessions_opened>>

ParseAllMessagesRaises == PullRaises("full")
ParseNewMessagesRaises == PullRaises("new")

\* parse_chat_messages returned [] because the account is restricted.
ParseChatMessagesRestricted ==
    /\ pc = "fetch"
    /\ scan.kind = "restricted"
    /\ ReturnToCaller
    /\ UNCHANGED <<clock, scan_sessions, notifyVars, storeVars, ret, remoteVars, governorVars, statusVars, bridgeVars,
                   current_status, scan, sessions_opened>>

\* One turn of the for loop of parse_all_chats in which a cache lookup of
\* _should_skip_chat or parse_chat_messages raises (sqlite3.Error): the
\* `except Exception` clause of the loop records the error.
ParseAllChatsNextRaises ==
    /\ pc = "all_loop"
    /\ run.i <= Len(run.chats)
    /\ ~check_interruption_requested
    /\ run' = [run EXCEPT !.all_data[run.chats[run.i]] = "error", !.i = @ + 1]
    /\ current_status' = update_status(current_status, Null,
                                       [processed_chats |-> run.i - 1])
    /\ UNCHANGED <<clock, scan_sessions, notifyVars, storeVars, ret, remoteVars, governorVars, statusVars, bridgeVars,
                   pc, scan, sessions_opened>>

\* The store left by an earlier program run (session 0) that pulled both
\* messages of conversation 1; conversation 2 was never pulled. The account
\* was or was not found restricted by initialize().
InitFault ==
    /\ clock = 0
    /\ scan_sessions = NoSessions
    /\ remote = [k \in Keys |-> "a"]
    /\ remote_changes = 0
    /\ messages = [k \in Keys |-> IF k[1] = 1 THEN Row("a", FALSE) ELSE NoRow]
    /\ message_history =
           _log_message_change(
               _log_message_change(<<>>, 2, 1, "created", Null, "a", 0),
               1, 1, "created", Null, "a", 0)
    /\ ret = NoCall
    /\ pc = "idle"
    /\ current_status = InitStatus
    /\ run = NoRun
    /\ scan = NoScan
    /\ sessions_opened = 0
    /\ InitBridge
    /\ account_restricted \in BOOLEAN
    /\ req = NoRequest
    /\ InitStatusFile
    /\ InitNotify

NextFault ==
    \/ ParseAllChatsStart \/ ParseAllChatsNext \/ ParseAllChatsEnd
    \/ ParseAllChatsNextRaises
    \/ CheckForChangesStart \/ CheckForChangesNext \/ CheckForChangesEnd
    \/ ParseSingleChatStart \/ ParseChatMessagesRestricted
    \/ ParseAllMessagesFetch \/ ParseAllMessagesSave \/ ParseAllMessagesEnd
    \/ ParseNewMessagesFetch \/ ParseNewMessagesSave \/ ParseNewMessagesEnd
    \/ ParseAllMessagesRaises \/ ParseNewMessagesRaises

SpecFault == InitFault /\ [][NextFault]_vars

\* Change checks with a message-count limit, whose pulls may fail part-way;
\* remote messages are edited, none is created or deleted.
NextLimit ==
    \/ RemoteEdit
    \/ CheckForChangesStart \/ CheckForChangesNextLimited \/ CheckForChangesEnd
    \/ ParseAllMessagesFetch \/ ParseAllMessagesSave \/ ParseAllMessagesEnd
    \/ ParseAllMessagesRaises

SpecLimit == InitLimit /\ [][NextLimit]_vars

\* ----------------------------------------------------------- StatusManager
\* _load_status(): the parsed record, or None when the file is missing or
\* json.load raises on a truncated or half-written file.
_load_status(file) ==
    IF file.exists /\ ~file.torn
    THEN [observed |-> "status", status |-> file.status]
    ELSE [observed |-> "None", status |-> NoStatus]

\* _save_status(status), first half: open(STATUS_FILE, 'w') truncates the file.
_save_status_open(file, status) ==
    [file EXCEPT !.exists = TRUE, !.torn = TRUE, !.writing = status]

\* set_active_parser(parser) of main.py, up to the truncation of the file
set_active_parser ==
    /\ pc = "idle"
    /\ ~status_file.exists
    /\ status_file' =
           _save_status_open(status_file,
               [is_active |-> TRUE, current_operation |-> "Initializing",
                interruption_requested |-> FALSE])
    /\ UNCHANGED <<clock, scan_sessions, notifyVars, storeVars, ret, remoteVars, parserVars, bridgeVars, governorVars,
                   web>>

\* StatusManager.request_interruption() in the web process:
\* update_status({"interruption_requested": True}), up to the truncation of
\* the file. Nothing is written when _load_status returns None.
StatusManager_request_interruption ==
    /\ status_file.exists
    /\ ~status_file.torn
    /\ ~status_file.status.interruption_requested
    /\ status_file' =
           _save_status_open(status_file,
               [status_file.status EXCEPT !.interruption_requested = TRUE])
    /\ UNCHANGED <<clock, scan_sessions, notifyVars, storeVars, ret, remoteVars, parserVars, bridgeVars, governorVars,
                   web>>

\* _save_status(status), second half: json.dump has written the record and the
\* file is closed.
_save_status_dump ==
    /\ status_file.torn
    /\ status_file' = [status_file EXCEPT !.torn = FALSE,
                                          !.status = status_file.writing]
    /\ UNCHANGED <<clock, scan_sessions, notifyVars, storeVars, ret, remoteVars, parserVars, bridgeVars, governorVars,
                   web>>

\* StatusManager.get_status() in a process other than the writer's (the lock
\* is a threading.Lock of the calling process).
get_status ==
    /\ web' = _load_status(status_file)
    /\ UNCHANGED <<clock, scan_sessions, notifyVars, storeVars, ret, remoteVars, parserVars, bridgeVars, governorVars,
                   status_file>>

\* clear_active_parser() when main() ends: os.remove(STATUS_FILE)
clear_active_parser ==
    /\ pc = "idle"
    /\ status_file.exists
    /\ ~status_file.torn
    /\ status_file' = NoFile
    /\ UNCHANGED <<clock, scan_sessions, notifyVars, storeVars, ret, remoteVars, parserVars, bridgeVars, governorVars,
                   web>>

\* StatusManager.update_status({"interruption_requested": True}) in the web
\* process, up to `status = cls._load_status()`. The lock it holds is a
\* threading.Lock of the web process: the CLI process is not held back.
update_status_load ==
    /\ web.observed # "loaded"
    /\ LET status == _load_status(status_file)
       IN  web' = IF status.observed = "None"
                  THEN \* `if status:` fails, nothing is written
                       status
                  ELSE [observed |-> "loaded", status |-> status.status]
    /\ UNCHANGED <<clock, scan_sessions, notifyVars, storeVars, ret, remoteVars,
                   parserVars, bridgeVars, governorVars, status_file>>

\* update_status, the rest: status.update(updates), then _save_status(status)
\* up to the truncation of the file; open(STATUS_FILE, 'w') creates the file
\* when it is not there.
update_status_save ==
    /\ web.observed = "loaded"
    /\ ~status_file.torn
    /\ status_file' =
           _save_status_open(status_file,
               [web.status EXCEPT !.interruption_requested = TRUE])
    /\ web' = [web EXCEPT !.observed = "saved"]
    /\ UNCHANGED <<clock, scan_sessions, notifyVars, storeVars, ret, remoteVars,
                   parserVars, bridgeVars, governorVars>>

\* The CLI process registers its parser, runs parse_all_chats and clears the
\* register, beside a web process that reads the register and requests
\* interruptions.
NextRegister ==
    \/ set_active_parser \/ clear_active_parser
    \/ update_status_load \/ update_status_save \/ _save_status_dump
    \/ get_status
    \/ ParseAllChatsStart \/ ParseAllChatsNext \/ ParseAllChatsEnd
    \/ ParseAllMessagesFetch \/ ParseAllMessagesSave \/ ParseAllMessagesEnd

SpecRegister == InitRun /\ [][NextRegister]_vars

\* The CLI process running parse_all_chats beside a web process that reads and
\* writes the status register.
NextStatus ==
    \/ set_active_parser \/ clear_active_parser
    \/ StatusManager_request_interruption \/ _save_status_dump
    \/ get_status
    \/ ParseAllChatsStart \/ ParseAllChatsNext \/ ParseAllChatsEnd
    \/ ParseAllMessagesFetch \/ ParseAllMessagesSave \/ ParseAllMessagesEnd

SpecStatus == InitRun /\ [][NextStatus]_vars

\* The notification stream by itself.
NextNotify ==
    add_listener \/ remove_listener \/ client_queue_get \/ notify \/ notify_locked

SpecNotify == InitStore /\ [][NextNotify]_vars

\* Events are notified and the buffer of recent events is read.
NextRecent == notify \/ notify_locked \/ CallGetRecentEvents

SpecRecent == InitStore /\ [][NextRecent]_vars

\* ------------------------------------------------------------ properties
HistoryOf(c, m) ==
    SelectSeq(message_history, LAMBDA e : e.chat_id = c /\ e.message_id = m)

\* C1: the history of every message, in append order, begins with its only
\* 'created' entry, and the new_text of each entry is the old_text of the next.
C1_EditChain ==
    \A k \in Keys :
        LET h == HistoryOf(k[1], k[2])
        IN  /\ Len(h) > 0 => h[1].action_type = "created"
            /\ \A i \in 2..Len(h) : h[i].action_type # "created"
            /\ \A i \in 1..(Len(h) - 1) : h[i].new_text = h[i + 1].old_text

\* A message that was created, edited and then deleted by absence.
C1_Witness ==
    \E k \in Keys :
        LET h == HistoryOf(k[1], k[2])
        IN  /\ Len(h) = 3
            /\ h[2].action_type = "edited"
            /\ h[3].action_type = "deleted"

\* C3: mark_deleted_messages(c, O, s) tombstones exactly the stored, not yet
\* tombstoned messages of c whose id is not in O, appends one 'deleted' entry
\* (old_text = stored body, new_text = NULL) for each, returns their number,
\* and leaves every other row and every earlier entry as it was.
C3_MarkDeletedExact ==
    [][ret'.op = "mark_deleted_messages" =>
        LET c == ret'.chat_id
            O == ret'.ids
            D == {m \in IdsOf(c) : /\ messages[<<c, m>>].present
                                 /\ ~messages[<<c, m>>].is_deleted
                                 /\ m \notin O}
            n == Len(message_history)
            added == (n + 1)..Len(message_history')
        IN  /\ ret'.result = Cardinality(D)
            /\ \A k \in Keys :
                   messages'[k] = IF k[1] = c /\ k[2] \in D
                                  THEN [messages[k] EXCEPT !.is_deleted = TRUE]
                                  ELSE messages[k]
            /\ Len(message_history') = n + Cardinality(D)
            /\ SubSeq(message_history', 1, n) = message_history
            /\ \A m \in D :
                   Cardinality({i \in added : message_history'[i].message_id = m}) = 1
            /\ \A i \in added :
                   LET e == message_history'[i]
                   IN  /\ e.chat_id = c
                       /\ e.message_id \in D
                       /\ e.action_type = "deleted"
                       /\ e.old_text = messages[<<c, e.message_id>>].text
                       /\ e.new_text = Null
    ]_vars

\* A batch that tombstoned a message while an observed message of the same
\* conversation stays live.
C3_Witness ==
    /\ ret.op = "mark_deleted_messages"
    /\ ret.result >= 1
    /\ \E m \in ret.ids \cap IdsOf(ret.chat_id) :
           /\ messages[<<ret.chat_id, m>>].present
           /\ ~messages[<<ret.chat_id, m>>].is_deleted

Tombstones == {k \in Keys : messages[k].is_deleted}
DeletedEntries(hist) ==
    Cardinality({i \in 1..Len(hist) : hist[i].action_type = "deleted"})
Pulling == pc \in {"fetch", "save"}

C4_IncrementalNeverDeletes ==
    [][(Pulling /\ scan.kind = "new") =>
        /\ ret' = ret
        /\ \A k \in Keys : messages'[k].is_deleted = messages[k].is_deleted
        /\ DeletedEntries(message_history') = DeletedEntries(message_history)
    ]_vars

\* A finished incremental pull of a conversation one of whose stored, live
\* messages was deleted remotely.
C4_Witness ==
    /\ ~Pulling
    /\ scan.kind = "new"
    /\ run.returned
    /\ \E m \in IdsOf(scan.chat_id) :
           /\ remote[<<scan.chat_id, m>>] = Gone
           /\ messages[<<scan.chat_id, m>>].present
           /\ ~messages[<<scan.chat_id, m>>].is_deleted

C9_ProcessedChatsMatches ==
    (run.kind = "all" /\ (pc = "all_end" \/ run.returned)) =>
        current_status.progress.processed_chats = run.chats_parsed + run.chats_skipped

\* C10: stopping on an interruption and returning removes nothing from the
\* store, keeps a status entry for every conversation processed so far, and the
\* call returns normally.
C10_CleanPartialSummary ==
    [][(run.kind = "all" /\ run'.broke /\ run' # run) =>
        /\ messages' = messages
        /\ message_history' = message_history
        /\ \A j \in 1..(run.i - 1) :
               run'.all_data[run.chats[j]] \in {"parsed", "skipped - already cached"}
        /\ pc = "all_end" => (run'.returned /\ pc' = "idle")
    ]_vars

\* An interrupted parse_all_chats that returned with one conversation parsed and
\* one left out.
C10_Witness ==
    /\ run.kind = "all"
    /\ run.broke
    /\ run.returned
    /\ run.i = 2
    /\ Len(run.chats) = 2
    /\ run.all_data[run.chats[1]] = "parsed"
    /\ Len(message_history) > 1

\* ------------------------------------------------------- bridge properties
PushKey == <<push.chat_id, push.message_id>>

\* The step in which the bridge finishes handling a notification of this kind.
PushHandled(kind) ==
    push.pc = "log" /\ push.kind = kind /\ push'.pc = "idle"

StoredLive(k) == messages[k].present /\ ~messages[k].is_deleted

\* C5: while a polled observation and the handling of a push notification for
\* the same message interleave step by step, no message's history holds two
\* 'created' entries, and no entry's old_text differs from the new_text of the
\* entry before it.
C5_NoRaceCorruption ==
    \A k \in Keys :
        LET h == HistoryOf(k[1], k[2])
        IN  /\ Cardinality({i \in 1..Len(h) : h[i].action_type = "created"}) <= 1
            /\ \A i \in 2..Len(h) : h[i].old_text = h[i - 1].new_text

\* A push read the stored row, a polled observation then changed that row, and
\* the next polled observation of the same message is between its read and its
\* write while the push is still being handled.
C5_Witness ==
    /\ push.pc = "log"
    /\ PushKey \in PolledKeys
    /\ push.old_content.present
    /\ push.old_content.text # messages[PushKey].text
    /\ poll.pc = "write"
    /\ <<poll.chat_id, poll.message_id>> = PushKey
    /\ Len(HistoryOf(push.chat_id, push.message_id)) >= 2

\* C6: when the bridge has handled an edit notification for a stored, live
\* message whose body differs from the pushed one, the row holds the pushed
\* body and one 'edited' entry (stored body -> pushed body) was appended.
C6_EditPushReconciled ==
    [][(PushHandled("edited") /\ StoredLive(PushKey)
            /\ messages[PushKey].text # push.text)
        => /\ messages'[PushKey].text = push.text
           /\ Len(message_history') = Len(message_history) + 1
           /\ LET e == message_history'[Len(message_history')]
              IN  /\ e.chat_id = push.chat_id
                  /\ e.message_id = push.message_id
                  /\ e.action_type = "edited"
                  /\ e.old_text = messages[PushKey].text
                  /\ e.new_text = push.text]_vars

C11_FailedPullRecorded ==
    [][(run.kind = "all" /\ Pulling /\ ~scan.error /\ scan'.error)
        => run'.all_data[scan.chat_id] # "parsed"]_vars

\* C12: while the account is restricted no step writes a row or fetches a
\* message, and a parse_all_chats or check_for_changes call returns the
\* 'Account restricted' error without opening a session or listing the chats.
C12_RestrictedHalts ==
    [][account_restricted =>
        /\ messages' = messages
        /\ message_history' = message_history
        /\ scan'.kind \notin {"full", "new"}
        /\ scan'.todo = <<>>
        /\ ~scan'.message.present
        /\ (run'.kind \in {"all", "changes"} /\ run' # run)
               => /\ run'.returned
                  /\ run'.error = "Account restricted"
                  /\ run'.chats = <<>>
                  /\ sessions_opened' = sessions_opened
                  /\ pc' = "idle"
    ]_vars

\* parse_all_chats has returned the error on a restricted account.
C12_Witness ==
    /\ account_restricted
    /\ run.kind = "all"
    /\ run.returned
    /\ run.error = "Account restricted"
    /\ pc = "idle"

\* C17: an incremental pull observes only messages dated after the last
\* observed timestamp it was started from.
C17_IncrementalOnlyNewer ==
    (scan.kind = "new") =>
        /\ \A i \in 1..Len(scan.todo) : DateOf(scan.todo[i]) > scan.since
        /\ scan.message.present => DateOf(scan.message.id) > scan.since
        /\ \A m \in scan.current_message_ids : DateOf(m) > scan.since

\* ------------------------------------------------- _safe_request properties
\* C13: an await that raises FloodWaitError with seconds above max_flood_wait
\* ends the call in that step: the error is raised to the caller, nothing is
\* slept and no further attempt is made.
C13_CeilingAborts ==
    [][(req.pc = "await" /\ req'.exc = "FloodWaitError"
            /\ req'.seconds > max_flood_wait)
        => /\ req'.pc = "done"
           /\ req'.result = "FloodWaitError"
           /\ req'.slept = 0
           /\ req'.now = req.now + req'.duration
           /\ req'.attempt = req.attempt]_vars

\* A call that was aborted by a throttle of 301 s on its first attempt.
C13_Witness ==
    /\ req.pc = "done"
    /\ req.exc = "FloodWaitError"
    /\ req.seconds > max_flood_wait
    /\ req.result = "FloodWaitError"
    /\ req.awaits = 1

\* C14: a call awaits its request at most max_retries times, and when it is
\* over it has either returned the result of the attempt that succeeded or
\* raised the error of its last attempt; it never returns None.
C14_BoundedAttempts ==
    /\ req.awaits <= max_retries
    /\ req.attempt < max_retries
    /\ req.pc = "done" =>
           \/ req.result = "ok" /\ req.exc = "ok"
           \/ req.result = req.exc /\ req.exc \notin {"ok", "none"}

\* A call whose three attempts all failed.
C14_Witness ==
    /\ req.pc = "done"
    /\ req.awaits = max_retries
    /\ req.result \in {"FloodWaitError", "Exception", "RuntimeError"}

\* C15: attempts being numbered from 1 as the function prints them, the sleep
\* after a throttle of N <= max_flood_wait seconds on attempt k is
\* min(N * 1.5^k, max_flood_wait); for N = 10 and k = 2 it is 22.5 s.
C15_BackoffWait ==
    (req.pc \in {"loop", "done"} /\ req.exc = "FloodWaitError"
        /\ req.seconds <= max_flood_wait)
    => LET k == req.awaits
           N == req.seconds * TicksPerSecond
           ceiling == max_flood_wait * TicksPerSecond
       IN  /\ req.slept = Min2((N * 3 ^ k) \div 2 ^ k, ceiling)
           /\ req.slept <= ceiling
           /\ (req.seconds = 10 /\ k = 2) => 2 * req.slept = 45 * TicksPerSecond

\* The second attempt was throttled for 10 s and slept 22.5 s.
C15_Witness ==
    /\ req.pc = "loop"
    /\ req.exc = "FloodWaitError"
    /\ req.seconds = 10
    /\ req.awaits = 2
    /\ 2 * req.slept = 45 * TicksPerSecond

\* C16: when a call is about to issue its remote call, at least
\* delay_between_requests has passed since the previous remote call ended.
C16_DelayFromEndOfCall ==
    (req.pc = "await" /\ ~req.awaited /\ req.calls > 1)
    => req.last_request_time - req.prev_end >= delay_between_requests

\* ------------------------------------------------- status register
\* C18: once the status register holds interruption_requested = true, the next
\* step parse_all_chats takes at the top of its loop, with a conversation still
\* to go, is to stop.
C18_RegisterRequestStopsRun ==
    [][(/\ pc = "all_loop"
        /\ run.i <= Len(run.chats)
        /\ status_file.exists /\ ~status_file.torn
        /\ status_file.status.interruption_requested
        /\ <<pc, run, scan>>' # <<pc, run, scan>>)
        => run'.broke /\ pc' = "all_end"]_vars

\* What get_status() returns for a register holding the record rec in full
\* (None while no record was ever written).
AsRead(rec) ==
    IF rec = NoStatus
    THEN [observed |-> "None", status |-> NoStatus]
    ELSE [observed |-> "status", status |-> rec]

\* C19: a get_status() of another process returns the last record written in
\* full or, while a write is under way, possibly the record being written;
\* nothing else.
C19_NoTornRead ==
    [][web' # web
        => web' \in {AsRead(status_file.status)}
                       \cup (IF status_file.torn
                             THEN {AsRead(status_file.writing)} ELSE {})]_vars

\* ------------------------------------------------------ failing writes
\* Every tombstoned message has its 'deleted' entry and every 'deleted' entry
\* its tombstoned message.
TombstonesPaired ==
    \A k \in Keys :
        messages[k].is_deleted
        <=> \E i \in 1..Len(message_history) :
                /\ message_history[i].action_type = "deleted"
                /\ message_history[i].chat_id = k[1]
                /\ message_history[i].message_id = k[2]

\* C20: a save_message_with_history or mark_deleted_messages call one of whose
\* writes fails changes neither messages nor message_history, and after every
\* call tombstones and 'deleted' entries are paired.
C20_AtomicUnits ==
    [][/\ ret'.op \in {"save_message_with_history raised",
                       "mark_deleted_messages raised"}
          => messages' = messages /\ message_history' = message_history
       /\ TombstonesPaired']_vars

\* A mark_deleted_messages call failed on the history INSERT that follows its
\* first tombstoning UPDATE, and the message it had tombstoned is live.
C20_Witness ==
    /\ ret.op = "mark_deleted_messages raised"
    /\ ret.result = 2
    /\ \E m \in IdsOf(ret.chat_id) \ ret.ids :
           /\ messages[<<ret.chat_id, m>>].present
           /\ ~messages[<<ret.chat_id, m>>].is_deleted

\* ------------------------------------------------- failures inside a pull
\* C21: when the write of a fetched message fails while further messages of
\* the conversation are still to come, the pull goes on to fetch the next one.
C21_PullContinuesAfterFailedWrite ==
    [][(pc = "save" /\ scan.todo # <<>> /\ ~scan.error /\ scan'.error)
        => /\ pc' = "fetch"
           /\ scan'.kind = scan.kind
           /\ scan'.chat_id = scan.chat_id
           /\ scan'.todo = scan.todo]_vars

\* C22: when an orchestrated run has returned, the scan session it opened is
\* closed: its row has an end time and the run's final counters.
C22_SessionClosedOnReturn ==
    (run.returned /\ run.session_id # 0)
    => /\ run.closed
       /\ run.closed_stats.total_chats =
              IF run.kind = "changes" THEN run.chats_checked ELSE run.chats_parsed

\* ------------------------------------------------ bridge start and stop
\* C23: a start_monitoring call on a running bridge changes neither is_running
\* nor monitored_chats, and a stop_monitoring call leaves the bridge stopped
\* with the state a single stop leaves, whatever state it was called in.
C23_StartStopIdempotent ==
    [][/\ (/\ monitor.is_running
           /\ monitor' # monitor
           /\ monitor'.log \in {"Started monitoring", "Monitor is already running"})
          => /\ monitor'.is_running
             /\ monitor'.monitored_chats = monitor.monitored_chats
             /\ monitor'.log = "Monitor is already running"
       /\ (monitor' # monitor /\ monitor'.log = "Stopped monitoring")
          => /\ ~monitor'.is_running
             /\ monitor'.monitored_chats = monitor.monitored_chats
       /\ (monitor.log = "Stopped monitoring" /\ ~monitor'.is_running)
          => monitor' = monitor]_vars

\* The bridge was started for conversation 1 and then started again.
C23_Witness ==
    /\ monitor.is_running
    /\ monitor.monitored_chats = {1}
    /\ monitor.log = "Monitor is already running"

\* C24: with a non-empty allow-list, a notification for a conversation outside
\* it ends in the handler's return, with no row written and no event handed
\* out, and is never taken up; with an empty allow-list every notification is
\* taken up.
C24_AllowList ==
    [][/\ (push' # push /\ push'.pc = "returned")
          => /\ monitor.monitored_chats # {}
             /\ push'.chat_id \notin monitor.monitored_chats
             /\ UNCHANGED <<messages, message_history, realtime_changes_log, events>>
       /\ (push.pc # "log" /\ push'.pc = "log")
          => \/ monitor.monitored_chats = {}
             \/ push'.chat_id \in monitor.monitored_chats
       /\ (push.pc # "log" /\ push' # push /\ monitor.monitored_chats = {})
          => push'.pc = "log"]_vars

\* A delete notification for conversation 2 was logged while the allow-list
\* was empty, and a later notification for conversation 2 was turned away by
\* the allow-list {1}.
C24_Witness ==
    /\ monitor.monitored_chats = {1}
    /\ push.pc = "returned"
    /\ push.chat_id = 2
    /\ Len(realtime_changes_log) > 0
    /\ realtime_changes_log[1].chat_id = 2
    /\ messages = [k \in Keys |-> NoRow]

C26_RowsAndTombstonesStay ==
    [][\A k \in Keys :
           /\ messages[k].present => messages'[k].present
           /\ messages[k].is_deleted => messages'[k].is_deleted
           /\ messages'[k].is_deleted => messages'[k].present]_vars

\* Message 1 of conversation 1 was tombstoned with body "a", observed again
\* with body "b", and a delete notification for it is being handled.
C26_Witness ==
    /\ messages[<<1, 1>>] = Row("b", TRUE)
    /\ Len(message_history) > 0
    /\ message_history[Len(message_history)].action_type = "deleted"
    /\ message_history[Len(message_history)].old_text = "a"
    /\ push.pc = "log"
    /\ push.kind = "deleted"
    /\ PushKey = <<1, 1>>

\* C27: every step leaves the message_history rows it found as they are and
\* in place, adding rows only at the end; every 'created' row has a NULL
\* old_text and every 'deleted' row a NULL new_text.
C27_HistoryAppendOnly ==
    [][/\ Len(message_history') >= Len(message_history)
       /\ SubSeq(message_history', 1, Len(message_history)) = message_history
       /\ \A i \in 1..Len(message_history') :
              LET e == message_history'[i]
              IN  /\ e.action_type = "created" => e.old_text = Null
                  /\ e.action_type = "deleted" => e.new_text = Null
                  /\ e.action_type \in {"created", "edited", "deleted"}]_vars

\* A run has returned with 'created', 'edited' and 'deleted' rows in the
\* history, written by more than one scan session.
C27_Witness ==
    /\ run.returned
    /\ \E i, j, l \in 1..Len(message_history) :
           /\ i < j
           /\ message_history[i].action_type = "edited"
           /\ message_history[j].action_type = "deleted"
           /\ message_history[l].action_type = "created"
           /\ message_history[i].scan_session # message_history[j].scan_session

\* C28: the timestamps of the message_history rows of any one message are
\* strictly increasing in append order.
C28_TimestampsStrictlyIncrease ==
    \A k \in Keys :
        LET h == HistoryOf(k[1], k[2])
        IN  \A i \in 1..(Len(h) - 1) : h[i].timestamp < h[i + 1].timestamp

\* C29: a save_message_with_history call that observes a stored, live message
\* with the body the row holds appends nothing to message_history and leaves
\* the row as it was but for the volatile counters, which take the observed
\* values; no other row changes.
C29_UnchangedObservation ==
    [][ret'.op = "save_message_with_history" =>
        LET d == ret'.message_data
            k == <<d.chat_id, d.id>>
        IN  (StoredLive(k) /\ messages[k].text = d.text)
            => /\ message_history' = message_history
               /\ messages' = [messages EXCEPT ![k].views = d.views]]_vars

\* The last call observed a live message with its stored body and with a view
\* counter other than the stored one.
C29_Witness ==
    /\ ret.op = "save_message_with_history"
    /\ ret.existing.present
    /\ ~ret.existing.is_deleted
    /\ ret.existing.text = ret.message_data.text
    /\ ret.existing.views # ret.message_data.views
    /\ messages[<<ret.chat_id, ret.message_data.id>>].views = ret.message_data.views

\* C30: a save_message_with_history call that observes a tombstoned message
\* appends nothing to message_history, leaves the tombstone set, and leaves
\* the row's body equal to the body its last history row recorded.
C30_ResurrectionHarmless ==
    [][ret'.op = "save_message_with_history" =>
        LET d == ret'.message_data
            k == <<d.chat_id, d.id>>
            h == SelectSeq(message_history',
                           LAMBDA e : e.chat_id = k[1] /\ e.message_id = k[2])
        IN  (messages[k].present /\ messages[k].is_deleted)
            => /\ message_history' = message_history
               /\ messages'[k].is_deleted
               /\ h # <<>>
               /\ messages'[k].text = h[Len(h)].old_text]_vars

\* ------------------------------------------------------------ smart skip
\* C31: a turn of the loop of parse_all_chats that takes up a conversation
\* whose cached count of live messages is non-zero, in a run without
\* force_full_scan, fetches nothing and writes nothing for it, records
\* 'skipped - already cached' for it and moves on to the next conversation;
\* in a run with force_full_scan the turn skips nothing and starts the pull.
C31_SmartSkip ==
    [][(/\ pc = "all_loop"
        /\ run.kind = "all"
        /\ run.i <= Len(run.chats)
        /\ ~check_interruption_requested
        /\ <<pc, run>>' # <<pc, run>>)
        => LET chat == run.chats[run.i]
           IN  /\ (/\ ~run.force_full_scan
                   /\ get_cached_message_count(messages, chat) > 0)
                  => /\ pc' = "all_loop"
                     /\ scan' = scan
                     /\ messages' = messages
                     /\ message_history' = message_history
                     /\ run'.all_data[chat] = "skipped - already cached"
                     /\ run'.chats_skipped = run.chats_skipped + 1
                     /\ run'.i = run.i + 1
               /\ run.force_full_scan
                  => /\ pc' = "fetch"
                     /\ scan'.chat_id = chat
                     /\ scan'.kind = "full"
                     /\ run'.chats_skipped = run.chats_skipped
                     /\ run'.all_data[chat] # "skipped - already cached"]_vars

\* A run without force_full_scan skipped conversation 1, which is cached, and
\* went on to pull conversation 2.
C31_Witness ==
    /\ run.kind = "all"
    /\ ~run.force_full_scan
    /\ run.chats = <<1, 2>>
    /\ run.all_data[1] = "skipped - already cached"
    /\ run.i = 2
    /\ pc = "fetch"
    /\ scan.chat_id = 2

\* ------------------------------------------------- composite identity
\* The history entries of conversation c, in append order.
HistoryOfChat(c) == SelectSeq(message_history, LAMBDA e : e.chat_id = c)

\* C32: a save_message_with_history or mark_deleted_messages call for
\* conversation A changes no messages row of another conversation B and
\* appends no message_history entry of B, also when A and B hold messages
\* with the same id.
C32_ConversationFrame ==
    [][/\ ret'.op \in {"save_message_with_history", "mark_deleted_messages"}
       /\ \A k \in Keys : k[1] # ret'.chat_id => messages'[k] = messages[k]
       /\ \A c \in Chats \ {ret'.chat_id} : HistoryOfChat(c)' = HistoryOfChat(c)
       /\ \A i \in (Len(message_history) + 1)..Len(message_history') :
              message_history'[i].chat_id = ret'.chat_id]_vars

\* Conversations 1 and 2 both hold a message with id 1; a scan end of
\* conversation 1 that did not see it tombstoned it, and the one of
\* conversation 2 is live.
C32_Witness ==
    /\ ret.op = "mark_deleted_messages"
    /\ ret.chat_id = 1
    /\ ret.result > 0
    /\ messages[<<1, 1>>].is_deleted
    /\ messages[<<2, 1>>].present
    /\ ~messages[<<2, 1>>].is_deleted

\* ------------------------------------------------- sleeps of the governor
\* C33: a call of _safe_request that is over did not sleep after its last
\* attempt: every backoff sleep is followed by another attempt.
C33_NoSleepBeforeGivingUp ==
    req.pc = "done" => req.slept = 0

\* ------------------------------------------------- recent events buffer
\* C34: get_recent_events(limit) returns the last min(limit, n) events of the
\* buffer of n events, and leaves the buffer holding the same events in the
\* same order.
C34_RecentEventsPureRead ==
    [][(ret'.op = "get_recent_events" /\ notifier' = notifier)
        => LET n == Len(event_queue)
               k == Min2(ret'.limit, n)
           IN  /\ ret'.result = SubSeq(event_queue, n - k + 1, n)
               /\ event_queue' = event_queue]_vars

\* ------------------------------------------------- pulls with a limit
\* C35: no stored message that still exists remotely is tombstoned, whatever
\* message-count limit the full pulls were bounded by.
C35_LimitedPullTombstonesNothingLive ==
    \A k \in Keys : messages[k].is_deleted => ~IsLive(remote[k])

\* ------------------------------------------------- full pulls that fail
\* C36: when a full pull raises before its message stream is exhausted,
\* mark_deleted_messages is not called: the step tombstones no message,
\* appends no history entry, and leaves the rows written before the error as
\* they were written.
C36_FailedFullPullMarksNothing ==
    [][(scan.kind = "full" /\ ~scan.error /\ scan'.error)
        => /\ messages' = messages
           /\ message_history' = message_history
           /\ ret' = ret]_vars

\* A full pull of conversation 1 wrote the edit of message 2, then raised
\* before message 1 was fetched: message 2 keeps the new text and message 1,
\* which the pull never saw, is live.
C36_Witness ==
    /\ scan.kind = "full"
    /\ scan.error
    /\ scan.chat_id = 1
    /\ scan.current_message_ids = {2}
    /\ scan.todo = <<1>>
    /\ messages[<<1, 2>>].text = "b"
    /\ messages[<<1, 1>>].present
    /\ ~messages[<<1, 1>>].is_deleted
    /\ \E i \in 1..Len(message_history) :
           /\ message_history[i].action_type = "edited"
           /\ message_history[i].message_id = 2

\* ------------------------------------------------- interruption flag
\* C37: once interruption_requested is set no step of the parser clears it; a
\* parse_all_chats started with the flag set reaches its loop with the flag
\* set, and a turn of the loop taken with the flag set stops the run without
\* fetching, skipping or recording any conversation.
C37_InterruptionSticky ==
    [][/\ current_status.interruption_requested
          => current_status'.interruption_requested
       /\ (/\ current_status.interruption_requested
           /\ pc = "idle" /\ pc' = "all_loop")
          => run'.i = 1 /\ run'.chats_parsed = 0 /\ run'.chats_skipped = 0
       /\ (/\ current_status.interruption_requested
           /\ pc = "all_loop" /\ run.kind = "all"
           /\ run.i <= Len(run.chats)
           /\ <<pc, run>>' # <<pc, run>>)
          => /\ pc' = "all_end"
             /\ run'.broke
             /\ run'.i = run.i
             /\ run'.all_data = run.all_data
             /\ run'.chats_parsed = run.chats_parsed
             /\ run'.chats_skipped = run.chats_skipped
             /\ scan' = scan]_vars

\* The second parse_all_chats of a parser that was interrupted during its
\* first one: it has returned, having stopped before the first of its two
\* conversations.
C37_Witness ==
    /\ run.kind = "all"
    /\ run.session_id = 2
    /\ run.chats = <<1, 2>>
    /\ run.returned
    /\ run.broke
    /\ run.i = 1
    /\ run.chats_parsed = 0
    /\ run.all_data = NoRun.all_data
    /\ current_status.interruption_requested

\* ------------------------------------------------- scan session ids
\* C38: no create_scan_session call fails, and the id a call returns is the
\* id of a row of its own, which no earlier call returned.
C38_SessionIdsDistinct ==
    [][/\ ret'.op # "create_scan_session raised"
       /\ (ret'.op = "create_scan_session" /\ scan_sessions' # scan_sessions)
          => /\ ret'.result \notin DOMAIN scan_sessions
             /\ ret'.result \in DOMAIN scan_sessions']_vars

\* ------------------------------------------------- pushes and is_running
\* C39: an edit or delete notification is taken up by its handler, to be
\* written to the store and handed to the callbacks, only if the bridge is
\* running when it arrives.
C39_PushOnlyWhileRunning ==
    [][(push.pc # "log" /\ push'.pc = "log") => monitor.is_running]_vars

\* ------------------------------------------------- cleared register
\* The record set_active_parser writes.
InitialRecord ==
    [is_active |-> TRUE, current_operation |-> "Initializing",
     interruption_requested |-> FALSE]

\* C40: a status register that is absent, as clear_active_parser leaves it,
\* comes into being again only through set_active_parser writing its initial
\* record.
C40_ClearedStaysAbsent ==
    [][(~status_file.exists /\ status_file'.exists)
        => status_file'.writing = InitialRecord]_vars

====
